---- MODULE Spec2Model ----
(***************************************************************************)
(* Verification model of zkFuzzer (mathcrypto/zkFuzzer).                   *)
(*                                                                         *)
(*   SpecGraph   : analyzeR1CSConstraints / findConnectedComponents /      *)
(*                 depthFirstSearch of src/fuzzer/circom-fuzzer.js         *)
(*   SpecNull    : NullifierReuseAnalyzer of src/fuzzer/nullifier-fuzzer.js*)
(*   SpecFuzz    : testForUnderconstrainedVariables, generateMutatedInputs *)
(*   SpecRun     : the CLI action and runAllTests                          *)
(*   SpecParse   : R1CSParser                                              *)
(*   SpecWitness : generateWitness and generate_witness.js                 *)
(*                                                                         *)
(* Signal identifiers are naturals; identifier 0 is the constant term.     *)
(* A linear combination (a JSON object keyed by signal id) is modelled by  *)
(* its key set; JavaScript enumerates integer-like keys in ascending       *)
(* order, which SortedSeq reproduces.  A JS Map / Set is modelled with its *)
(* insertion order: a sequence of keys plus a function on them.            *)
(***************************************************************************)
EXTENDS Integers, Sequences, FiniteSets, TLC

VARIABLES
    r1cs,       \* the exported constraint artifact handed to analyzeR1CSConstraints
    gpc,        \* position of the analysis: "start" | "done"
    gres,       \* what analyzeR1CSConstraints computed and returned
    poseidon,   \* the hash handed to analyzeNullifierReuse: "injective" | "colliding"
    testCases,  \* the scenarios handed to analyzeNullifierReuse
    npc,        \* position of the nullifier analysis: "idle" | "start" | "done"
    nreport,    \* the report analyzeNullifierReuse returned
    heap,       \* the input-assignment objects and arrays alive in the pass
    template0,  \* the value of inputTemplate when the pass was entered
    fpc,        \* position in testForUnderconstrainedVariables
    witness1,   \* content of witness1.wtns in the output directory (0: absent)
    baselineWitness,    \* what snarkjs wtns calculate yields on input.json, known once
                        \* witness1.wtns exists: 0 = it rejects, else the witness
    w0Source,   \* how witness1.wtns came to be: "none" | "copied" | "generated"
    findings,   \* findings of the nullifier-bypass probe
    modifiedInput,      \* the probe's copy of the baseline (NullRef: none)
    mutations,          \* generateMutatedInputs' mutations / mutatedInputs
    gi,                 \* loop index of generateMutatedInputs
    lastSelected,       \* the keys drawn in the latest iteration of that loop
    ti,                 \* loop index of the mutation sweep
    mutationFindings,   \* findings of the mutation sweep
    lastTrial,          \* what the latest sweep iteration saw and did
    genCalls,           \* witness-generator invocations so far, per phase
    returned,           \* how the pass returned, and the list it returned
    rpc,                \* position of the CLI action / runAllTests
    iterations,         \* the fuzzer's field this.iterations (0 before construction)
    given,              \* whether the CLI passes an input or template to runAllTests
    compiled,           \* outcome of compileCircuit: "none" | "ok" | "failed"
    runVulnerabilities, \* runAllTests' merged list `vulnerabilities`
    report,             \* the report file: written or not, and its vulnerabilities
    exitStatus,         \* the process exit status once rpc = "exited"
    setupFailure,       \* the setup step that failed in the CLI, "none" if none did
    options,            \* the strictMode option handed to new R1CSParser(options)
    rawData,            \* the document in the file handed to parseR1CSJson
    ppc,                \* position of the loader run: "idle" | "start" | "parsed" | "reparsed"
    parsed,             \* outcome of parseR1CSJson on rawData
    reparsed,           \* outcome of parseR1CSJson on the re-serialized parsed system
    wentry,             \* who calls generateWitness first: "none" | "api" | "script"
    wargc,              \* process.argv.length of generate_witness.js run from a shell
    procs,              \* live processes spawned by generateWitness, one below the other
    started,            \* processes spawned so far
    wpc,                \* position of the deepest live process
    childCode,          \* the code of the latest 'close' event
    outcome             \* how the first caller ended: promise state or exit status

graphVars == <<r1cs, gpc, gres>>
nullVars == <<poseidon, testCases, npc, nreport>>
fuzzVars == <<heap, template0, fpc, witness1, baselineWitness, w0Source, findings, modifiedInput,
              mutations, gi, lastSelected, ti, mutationFindings, lastTrial,
              genCalls, returned>>
runVars == <<rpc, iterations, given, compiled, runVulnerabilities, report, exitStatus, setupFailure>>
parserVars == <<options, rawData, ppc, parsed, reparsed>>
witnessVars == <<wentry, wargc, procs, started, wpc, childCode, outcome>>
vars == <<graphVars, nullVars, fuzzVars, runVars, parserVars, witnessVars>>

----------------------------------------------------------------------------
(* Bounds of the model                                                     *)

NSignals == 3
MaxDrivers == 1
MaxDriven == 2
MaxConstraints == 2
fieldSize == 100003
MaxCases == 3
MaxVoterIndex == 1
MaxRandom == 1
MaxArrLen == 1
NumWitnesses == 2
MaxKeys == 2
MaxName == 2
MaxPartEntries == 1
MaxDocConstraints == 1
MaxDocSignals == 2
MaxProcs == 8

----------------------------------------------------------------------------
(* Generic helpers                                                         *)

Range(s) == { s[i] : i \in 1..Len(s) }

RECURSIVE SortedSeq(_)
SortedSeq(S) ==
    IF S = {} THEN <<>>
    ELSE LET m == CHOOSE x \in S : \A y \in S : x <= y
         IN  <<m>> \o SortedSeq(S \ {m})

\* Set.prototype.add / first Map.set of a key: insertion order is kept
AddNew(s, x) == IF x \in Range(s) THEN s ELSE Append(s, x)

RECURSIVE AddAllNew(_, _)
AddAllNew(s, xs) ==
    IF xs = <<>> THEN s ELSE AddAllNew(AddNew(s, Head(xs)), Tail(xs))

\* every key of the part, the constant term included
KeysWithConstant(part) == SortedSeq(part)

\* for (const signalId in part) if (signalId !== '0')
NonConstKeys(part) == SortedSeq(part \ {0})

----------------------------------------------------------------------------
(* analyzeR1CSConstraints: graph building                                  *)

EmptyMap == [keys |-> <<>>, val |-> <<>>]

MapHas(m, k) == k \in Range(m.keys)

MapGet(m, k) == LET i == CHOOSE j \in 1..Len(m.keys) : m.keys[j] = k IN m.val[i]

MapSet(m, k, v) ==
    IF MapHas(m, k)
    THEN LET i == CHOOSE j \in 1..Len(m.keys) : m.keys[j] = k
         IN  [m EXCEPT !.val[i] = v]
    ELSE [keys |-> Append(m.keys, k), val |-> Append(m.val, v)]

\* if (!signalDependencies.has(id)) set(id, 0); set(id, get(id) + 1)
RECURSIVE TrackDependencies(_, _)
TrackDependencies(deps, ids) ==
    IF ids = <<>> THEN deps
    ELSE LET id == Head(ids)
             d0 == IF MapHas(deps, id) THEN deps ELSE MapSet(deps, id, 0)
         IN  TrackDependencies(MapSet(d0, id, MapGet(d0, id) + 1), Tail(ids))

\* inputSignals.forEach(input => { if (!has) set(input, new Set());
\*                                 outputSignals.forEach(o => get(input).add(o)) })
RECURSIVE AddEdges(_, _, _)
AddEdges(graph, inputs, outputs) ==
    IF inputs = <<>> THEN graph
    ELSE LET input == Head(inputs)
             g0 == IF MapHas(graph, input) THEN graph ELSE MapSet(graph, input, <<>>)
             g1 == MapSet(g0, input, AddAllNew(MapGet(g0, input), outputs))
         IN  AddEdges(g1, Tail(inputs), outputs)

WellFormed(constraint) == Len(constraint) = 3

\* one iteration of r1csData.constraints.forEach
ProcessConstraint(st, constraint) ==
    IF ~WellFormed(constraint) THEN st
    ELSE LET leftSide == constraint[1]
             rightSide == constraint[2]
             outputSide == constraint[3]
             inputSignals == AddAllNew(NonConstKeys(leftSide), NonConstKeys(rightSide))
             outputSignals == NonConstKeys(outputSide)
             d1 == TrackDependencies(st.signalDependencies, NonConstKeys(leftSide))
             d2 == TrackDependencies(d1, NonConstKeys(rightSide))
             d3 == TrackDependencies(d2, outputSignals)
         IN  [constraintGraph |-> AddEdges(st.constraintGraph, inputSignals, outputSignals),
              signalDependencies |-> d3,
              validConstraintCount |-> st.validConstraintCount + 1]

RECURSIVE BuildGraph(_, _)
BuildGraph(st, constraints) ==
    IF constraints = <<>> THEN st
    ELSE BuildGraph(ProcessConstraint(st, Head(constraints)), Tail(constraints))

----------------------------------------------------------------------------
(* findConnectedComponents / depthFirstSearch                              *)

\* graph.get(node) || new Set()
Neighbors(graph, node) == IF MapHas(graph, node) THEN MapGet(graph, node) ELSE <<>>

\* st = [visited |-> set, component |-> sequence in insertion order]
RECURSIVE depthFirstSearch(_, _, _)
RECURSIVE VisitNeighbors(_, _, _)
depthFirstSearch(graph, node, st) ==
    LET st1 == [visited |-> st.visited \cup {node},
                component |-> AddNew(st.component, node)]
    IN  VisitNeighbors(graph, Neighbors(graph, node), st1)

VisitNeighbors(graph, neighbors, st) ==
    IF neighbors = <<>> THEN st
    ELSE LET neighbor == Head(neighbors)
             st1 == IF neighbor \notin st.visited
                    THEN depthFirstSearch(graph, neighbor, st)
                    ELSE st
         IN  VisitNeighbors(graph, Tail(neighbors), st1)

\* acc = [visited |-> set, components |-> sequence of components]
RECURSIVE ComponentsFrom(_, _, _)
ComponentsFrom(graph, nodes, acc) ==
    IF nodes = <<>> THEN acc.components
    ELSE LET node == Head(nodes)
         IN  IF node \in acc.visited
             THEN ComponentsFrom(graph, Tail(nodes), acc)
             ELSE LET r == depthFirstSearch(graph, node,
                               [visited |-> acc.visited, component |-> <<>>])
                  IN  ComponentsFrom(graph, Tail(nodes),
                          [visited |-> r.visited,
                           components |-> Append(acc.components, r.component)])

\* a search from every key, each with a visited set of its own
findConnectedComponentsPerKey(graph) ==
    [i \in 1..Len(graph.keys) |->
        depthFirstSearch(graph, graph.keys[i], [visited |-> {}, component |-> <<>>]).component]

findConnectedComponents(graph) ==
    ComponentsFrom(graph, graph.keys, [visited |-> {}, components |-> <<>>])

----------------------------------------------------------------------------
(* analyzeR1CSConstraints: findings                                        *)

NoSignal == 0 - 1

\* a finding object; components is set only by the unsafe-reuse test, mutation
\* is the number a sweep finding names in its description (0 otherwise), error
\* is set only in the {error: ...} object
Finding(type, severity, signal, componentSummary) ==
    [type |-> type, severity |-> severity, signal |-> signal,
     componentSummary |-> componentSummary, components |-> <<>>, mutation |-> 0,
     error |-> ""]

\* for (const [signal, outgoingEdges] of constraintGraph.entries())
\*   if (outgoingEdges.size === 0) findings.push({type: 'potential-leaf-signal', ...})
RECURSIVE LeafFindings(_, _)
LeafFindings(graph, i) ==
    IF i > Len(graph.keys) THEN <<>>
    ELSE (IF Len(graph.val[i]) = 0
          THEN <<Finding("potential-leaf-signal", "medium", graph.keys[i], <<>>)>>
          ELSE <<>>) \o LeafFindings(graph, i + 1)

\* the report raised only from three components on
DisconnectedFindingsFromThree(connectedComponents) ==
    IF Len(connectedComponents) > 2
    THEN <<Finding("disconnected-constraint-graph", "high", NoSignal,
                   [idx \in 1..Len(connectedComponents) |->
                       [id |-> idx, size |-> Len(connectedComponents[idx])]])>>
    ELSE <<>>

\* if (connectedComponents.length > 1) findings.push({type: 'disconnected-constraint-graph', ...})
DisconnectedFindings(connectedComponents) ==
    IF Len(connectedComponents) > 1
    THEN <<Finding("disconnected-constraint-graph", "high", NoSignal,
                   [idx \in 1..Len(connectedComponents) |->
                       [id |-> idx, size |-> Len(connectedComponents[idx])]])>>
    ELSE <<>>

\* the test of the usage-count check: if (count === 1)
UsedOnce(count) == count = 1

\* for (const [signal, count] of signalDependencies.entries())
\*   if (count === 1) findings.push({type: 'potential-unconstrained-signal', ...})
RECURSIVE UsageFindings(_, _)
UsageFindings(deps, i) ==
    IF i > Len(deps.keys) THEN <<>>
    ELSE (IF UsedOnce(deps.val[i])
          THEN <<Finding("potential-unconstrained-signal", "high", deps.keys[i], <<>>)>>
          ELSE <<>>) \o UsageFindings(deps, i + 1)

NoAnalysis ==
    [completed |-> FALSE, constraintGraph |-> EmptyMap, signalDependencies |-> EmptyMap,
     validConstraintCount |-> 0, connectedComponents |-> <<>>, findings |-> <<>>]

\* the whole method: early returns of [] for a missing file, a JSON.parse
\* exception (caught) and a missing constraints array; otherwise the analysis
analyzeR1CSConstraints(data) ==
    IF data.kind # "ok" THEN NoAnalysis
    ELSE LET built == BuildGraph([constraintGraph |-> EmptyMap,
                                  signalDependencies |-> EmptyMap,
                                  validConstraintCount |-> 0], data.constraints)
             connectedComponents == findConnectedComponents(built.constraintGraph)
         IN  [completed |-> TRUE,
              constraintGraph |-> built.constraintGraph,
              signalDependencies |-> built.signalDependencies,
              validConstraintCount |-> built.validConstraintCount,
              connectedComponents |-> connectedComponents,
              findings |-> LeafFindings(built.constraintGraph, 1)
                           \o DisconnectedFindings(connectedComponents)
                           \o UsageFindings(built.signalDependencies, 1)]

----------------------------------------------------------------------------
(* nullifier-fuzzer.js: NullifierReuseAnalyzer                             *)
(* Decimal strings are modelled by the naturals they denote.               *)

TestCase(scenario, merkleRoot, voterIndex, leafValue) ==
    [scenario |-> scenario, merkleRoot |-> merkleRoot,
     voterIndex |-> voterIndex, leafValue |-> leafValue]

\* testScenarios; leaves = scenario.leafValues || [scenario.leafValue]
testScenarios ==
    << [name |-> 1, leaves |-> <<12345>>, voterIndices |-> <<0, 1, 2, 3>>,
        merkleRoot |-> 12345],
       [name |-> 2, leaves |-> <<12345, 54321, 99999>>, voterIndices |-> <<0, 1, 2>>,
        merkleRoot |-> 54321] >>

\* leaves.forEach(leaf => scenario.voterIndices.forEach(voterIndex => testCases.push(...)))
RECURSIVE ScenarioCases(_, _, _)
ScenarioCases(sc, li, vi) ==
    IF li > Len(sc.leaves) THEN <<>>
    ELSE IF vi > Len(sc.voterIndices) THEN ScenarioCases(sc, li + 1, 1)
    ELSE <<TestCase(sc.name, sc.merkleRoot, sc.voterIndices[vi], sc.leaves[li])>>
         \o ScenarioCases(sc, li, vi + 1)

generateVulnerabilityTestCases ==
    ScenarioCases(testScenarios[1], 1, 1) \o ScenarioCases(testScenarios[2], 1, 1)

\* F.e(string): the field element denoted, reduced modulo the field prime
Fe(x) == x % fieldSize

\* poseidon(inputs): an external hash.  "injective": distinct input vectors
\* give distinct digests; "colliding": a hash that maps some distinct input
\* vectors of field elements to one digest.
Hash(kind, inputs) ==
    IF kind = "injective" THEN inputs
    ELSE <<(inputs[1] + inputs[2]) % 2>>

NullifierHashWithIndex(testCase, kind) ==
    Hash(kind, <<Fe(testCase.merkleRoot), Fe(testCase.leafValue), Fe(testCase.voterIndex)>>)

\* F.toString(poseidon([F.e(testCase.merkleRoot), F.e(testCase.leafValue)]))
NullifierHashOf(testCase, kind) ==
    Hash(kind, <<Fe(testCase.merkleRoot), Fe(testCase.leafValue)>>)

\* if (!nullifierHashes[h]) nullifierHashes[h] = []; nullifierHashes[h].push(testCase)
\* The pushed object is referred to by its position in testCases.
RECURSIVE GroupCases(_, _, _, _)
GroupCases(tcs, kind, i, nullifierHashes) ==
    IF i > Len(tcs) THEN nullifierHashes
    ELSE LET h == NullifierHashOf(tcs[i], kind)
             m0 == IF MapHas(nullifierHashes, h) THEN nullifierHashes
                   ELSE MapSet(nullifierHashes, h, <<>>)
         IN  GroupCases(tcs, kind, i + 1, MapSet(m0, h, Append(MapGet(m0, h), i)))

IsReuseAtLeastOne(cases) == Len(cases) >= 1

\* the test that makes a group a vulnerability: if (cases.length > 1)
IsReuse(cases) == Len(cases) > 1

\* Object.entries(nullifierHashes).forEach(([hash, cases]) => if (cases.length > 1) push)
RECURSIVE ReuseVulnerabilities(_, _)
ReuseVulnerabilities(nullifierHashes, i) ==
    IF i > Len(nullifierHashes.keys) THEN <<>>
    ELSE (IF IsReuse(nullifierHashes.val[i])
          THEN << [type |-> "Nullifier Reuse", severity |-> "Critical",
                   nullifierHash |-> nullifierHashes.keys[i],
                   duplicateCases |-> nullifierHashes.val[i]] >>
          ELSE <<>>) \o ReuseVulnerabilities(nullifierHashes, i + 1)

analyzeNullifierReuse(tcs, kind) ==
    LET nullifierHashes == GroupCases(tcs, kind, 1, EmptyMap)
        vulnerabilities == ReuseVulnerabilities(nullifierHashes, 1)
    IN  [summary |-> [totalTestCases |-> Len(tcs),
                      uniqueNullifiers |-> Len(nullifierHashes.keys),
                      vulnerabilitiesDetected |-> Len(vulnerabilities)],
         vulnerabilities |-> vulnerabilities,
         nullifierHashes |-> nullifierHashes]

NoReport ==
    [summary |-> [totalTestCases |-> 0, uniqueNullifiers |-> 0, vulnerabilitiesDetected |-> 0],
     vulnerabilities |-> <<>>, nullifierHashes |-> EmptyMap]

\* scenarios a caller may pass: roots include one that wraps modulo the prime
TestCaseValues ==
    { TestCase(1, root, v, leaf) :
        root \in {0, 1, fieldSize}, v \in 0..MaxVoterIndex, leaf \in {0, 1} }

TestCaseLists == UNION { [1..n -> TestCaseValues] : n \in 0..MaxCases }

NullIdle ==
    /\ poseidon = "injective"
    /\ testCases = <<>>
    /\ npc = "idle"
    /\ nreport = NoReport

----------------------------------------------------------------------------
(* Input assignments as JavaScript objects                                 *)
(* The heap holds objects and arrays by reference, so that aliasing        *)
(* between a template and its copies is visible.  An object is its key     *)
(* list (Object.keys order) with one slot per key; a slot is a scalar      *)
(* (a field-element string, modelled by the natural it denotes) or the     *)
(* address of an array of scalars.                                         *)

NullRef == 0

ScalarSlot(v) == [isArray |-> FALSE, v |-> v]
ArraySlot(a) == [isArray |-> TRUE, v |-> a]

EmptyHeap == [objs |-> <<>>, arrs |-> <<>>]

KeyIndex(obj, key) == CHOOSE k \in 1..Len(obj.keys) : obj.keys[k] = key

HasKey(obj, key) == key \in Range(obj.keys)

\* the JSON value an object reference denotes
RECURSIVE SlotValues(_, _, _)
SlotValues(h, slots, k) ==
    IF k > Len(slots) THEN <<>>
    ELSE << (IF slots[k].isArray
             THEN [isArray |-> TRUE, items |-> h.arrs[slots[k].v]]
             ELSE [isArray |-> FALSE, items |-> <<slots[k].v>>]) >>
         \o SlotValues(h, slots, k + 1)

ValueOf(h, ref) == [keys |-> h.objs[ref].keys, val |-> SlotValues(h, h.objs[ref].val, 1)]

\* addresses of the arrays an object refers to
ArraysOf(h, ref) ==
    { h.objs[ref].val[k].v : k \in { j \in 1..Len(h.objs[ref].val) : h.objs[ref].val[j].isArray } }

\* a copy that shares the arrays of the original (Object.assign({}, x))
CloneInputShallow(h, ref) ==
    [objs |-> Append(h.objs, h.objs[ref]), arrs |-> h.arrs]

\* JSON.parse(JSON.stringify(x)) of an object of strings and arrays of strings:
\* a new object with the same keys and values, every array a new array
RECURSIVE CloneSlots(_, _, _)
CloneSlots(arrs, slots, k) ==
    IF k > Len(slots) THEN [arrs |-> arrs, slots |-> <<>>]
    ELSE IF slots[k].isArray
         THEN LET rest == CloneSlots(Append(arrs, arrs[slots[k].v]), slots, k + 1)
              IN  [arrs |-> rest.arrs, slots |-> <<ArraySlot(Len(arrs) + 1)>> \o rest.slots]
         ELSE LET rest == CloneSlots(arrs, slots, k + 1)
              IN  [arrs |-> rest.arrs, slots |-> <<slots[k]>> \o rest.slots]

CloneInput(h, ref) ==
    LET c == CloneSlots(h.arrs, h.objs[ref].val, 1)
    IN  [objs |-> Append(h.objs, [keys |-> h.objs[ref].keys, val |-> c.slots]),
         arrs |-> c.arrs]

\* the reference of the object the last clone created
NewestRef(h) == Len(h.objs)

\* obj[key] = v
SetScalar(h, ref, k, v) == [h EXCEPT !.objs[ref].val[k] = ScalarSlot(v)]

\* arr[idx] = v with a 0-based idx; idx = length appends
SetArrayElem(h, a, idx, v) ==
    IF idx < Len(h.arrs[a])
    THEN [h EXCEPT !.arrs[a][idx + 1] = v]
    ELSE [h EXCEPT !.arrs[a] = Append(h.arrs[a], v)]

----------------------------------------------------------------------------
(* generateRandomFieldElement / generateMutatedInputs                      *)

\* (randomBigInt % this.fieldSize).toString()
generateRandomFieldElement(randomBigInt) == randomBigInt % fieldSize

\* values of crypto.randomBytes(32) the model draws: small ones and one that wraps
RandomDraws == (0..MaxRandom) \cup {fieldSize + MaxRandom}

\* Math.floor(Math.random() * 3) + 1
FieldCountDraws == 1..3

\* Math.min(Math.floor(Math.random() * 3) + 1, keys.length)
FieldsToMutate(draw, nKeys) == IF draw < nKeys THEN draw ELSE nKeys

\* Math.floor(Math.random() * length): 0 for an empty array
ArrayIndexDraws(length) == IF length = 0 THEN {0} ELSE 0..(length - 1)

\* one pass of the inner loop: the key drawn, the array index drawn, the value drawn
PickDraws(h, ref) ==
    UNION { { [key |-> k, idx |-> x, val |-> generateRandomFieldElement(r)] :
                x \in (IF h.objs[ref].val[k].isArray
                       THEN ArrayIndexDraws(Len(h.arrs[h.objs[ref].val[k].v]))
                       ELSE {0}),
                r \in RandomDraws } :
            k \in 1..Len(h.objs[ref].keys) }

\* if (Array.isArray(m[randomKey])) m[randomKey][arrayIndex] = v; else m[randomKey] = v
ApplyPick(h, ref, pick) ==
    IF h.objs[ref].val[pick.key].isArray
    THEN SetArrayElem(h, h.objs[ref].val[pick.key].v, pick.idx, pick.val)
    ELSE SetScalar(h, ref, pick.key, pick.val)

RECURSIVE ApplyPicks(_, _, _)
ApplyPicks(h, ref, picks) ==
    IF picks = <<>> THEN h
    ELSE ApplyPicks(ApplyPick(h, ref, Head(picks)), ref, Tail(picks))

\* the draws of one iteration of the outer loop, for a template with keys
MutationDraws(h, ref) ==
    UNION { [1..FieldsToMutate(d, Len(h.objs[ref].keys)) -> PickDraws(h, ref)] :
            d \in FieldCountDraws }

\* one iteration of the outer loop on its draws: the heap after it
MutateCopy(h, template, picks) ==
    LET h1 == CloneInput(h, template)
    IN  ApplyPicks(h1, NewestRef(h1), picks)

----------------------------------------------------------------------------
(* analyzeCircuitStatically                                                *)
(* The circuit source is modelled by the left-hand names of its `<--`      *)
(* statements in order of occurrence; names are numbered from 101.         *)

RECURSIVE AssignmentFindings(_)
AssignmentFindings(names) ==
    IF names = <<>> THEN <<>>
    ELSE <<Finding("potential-unconstrained-signal", "high", Head(names), <<>>)>>
         \o AssignmentFindings(Tail(names))

\* if (!fs.existsSync(this.circuitPath)) return []; one finding per regex match
analyzeCircuitStatically(source) ==
    IF ~source.exists THEN <<>> ELSE AssignmentFindings(source.assigned)

CircuitSources ==
    { [exists |-> FALSE, assigned |-> <<>>],
      [exists |-> TRUE, assigned |-> <<>>],
      [exists |-> TRUE, assigned |-> <<101, 101>>] }

----------------------------------------------------------------------------
(* testForUnderconstrainedVariables                                        *)

\* the mutation count passed by the sweep: generateMutatedInputs(inputTemplate, 3)
SweepCount == 3

\* witnesses the external generator may produce
Witnesses == 1..NumWitnesses

inputTemplate == 1

\* generateInput(inputTemplate) returns its argument
generateInput(ref) == ref

ProbeFinding == Finding("under-constrained-variable", "high", NoSignal, <<>>)

MutationFinding(i) ==
    [Finding("under-constrained-variable", "high", NoSignal, <<>>) EXCEPT !.mutation = i + 1]

\* return [{ error: 'witness_error', details: error.message }]
WitnessError == [Finding("", "", NoSignal, <<>>) EXCEPT !.error = "witness_error"]

\* witness1.equals(witness2)
WitnessesEqual(w1, w2) == w1 = w2

NoTrial == [index |-> 0, accepted |-> FALSE, witness |-> 0, added |-> FALSE]

NoCalls == [baseline |-> 0, probe |-> 0, mutant |-> 0]

NotReturned == [kind |-> "none", value |-> <<>>]

\* templates: any of the keys nullifierHash, x (scalars '0') and arr (an array of '0')
TemplateHeap(hasNullifier, hasX, arrLen) ==
    LET k1 == IF hasNullifier THEN <<"nullifierHash">> ELSE <<>>
        k2 == IF hasX THEN <<"x">> ELSE <<>>
        k3 == IF arrLen >= 0 THEN <<"arr">> ELSE <<>>
        v1 == IF hasNullifier THEN <<ScalarSlot(0)>> ELSE <<>>
        v2 == IF hasX THEN <<ScalarSlot(0)>> ELSE <<>>
        v3 == IF arrLen >= 0 THEN <<ArraySlot(1)>> ELSE <<>>
    IN  [objs |-> << [keys |-> k1 \o k2 \o k3, val |-> v1 \o v2 \o v3] >>,
         arrs |-> IF arrLen >= 0 THEN << [j \in 1..arrLen |-> 0] >> ELSE <<>>]

TemplateHeaps ==
    { h \in { TemplateHeap(n, x, a) : n \in BOOLEAN, x \in BOOLEAN, a \in (0 - 1)..MaxArrLen } :
        Len(h.objs[1].keys) <= MaxKeys }

FuzzIdle ==
    /\ heap = EmptyHeap
    /\ template0 = [keys |-> <<>>, val |-> <<>>]
    /\ fpc = "idle"
    /\ witness1 = 0
    /\ baselineWitness = 0
    /\ w0Source = "none"
    /\ findings = <<>>
    /\ modifiedInput = NullRef
    /\ mutations = <<>>
    /\ gi = 0
    /\ lastSelected = <<>>
    /\ ti = 0
    /\ mutationFindings = <<>>
    /\ lastTrial = NoTrial
    /\ genCalls = NoCalls
    /\ returned = NotReturned

NoReportFile == [written |-> FALSE, vulnerabilities |-> <<>>]

RunIdle ==
    /\ rpc = "idle"
    /\ iterations = 0
    /\ given = FALSE
    /\ compiled = "none"
    /\ runVulnerabilities = <<>>
    /\ report = NoReportFile
    /\ exitStatus = 0
    /\ setupFailure = "none"

----------------------------------------------------------------------------
(* R1CSParser (src/unnamed/part_002)                                        *)
(* A JSON value standing as a signal name, a signal reference, a           *)
(* coefficient or an option is a number n, the decimal string of n, the    *)
(* empty string, the empty array, a boolean, or undefined (absent).        *)

Num(n) == [t |-> "number", v |-> n]
Str(n) == [t |-> "string", v |-> n]
EmptyString == [t |-> "empty", v |-> 0]
EmptyArray == [t |-> "array", v |-> 0]
Bool(b) == [t |-> "boolean", v |-> IF b THEN 1 ELSE 0]
Undefined == [t |-> "undefined", v |-> 0]

\* String(x): String(1) = '1', String([]) = ''
JsString(x) ==
    IF x.t = "number" THEN Str(x.v)
    ELSE IF x.t = "array" THEN EmptyString
    ELSE x

\* truthiness: 0, '' and undefined are falsy, '0' and [] are truthy
Truthy(x) ==
    IF x.t = "number" \/ x.t = "boolean" THEN x.v # 0
    ELSE IF x.t = "empty" \/ x.t = "undefined" THEN FALSE
    ELSE TRUE

\* x || y
JsOr(x, y) == IF Truthy(x) THEN x ELSE y

\* constructor: this.strictMode = options.strictMode || true
strictMode(opts) == JsOr(opts, Bool(TRUE))

requiredFields == {"constraints", "signals", "r1csVersion"}

requiredParts == {"l", "r", "o"}

\* validateConstraintPart: an array whose entries own 'signal' and 'coefficient'
validateConstraintPart(part) ==
    /\ part.isArray
    /\ \A k \in 1..Len(part.items) :
          part.items[k].hasSignal /\ part.items[k].hasCoefficient

\* validateConstraintsStructure: an array of constraints owning l, r and o
validateConstraintsStructure(constraints) ==
    /\ constraints.isArray
    /\ \A i \in 1..Len(constraints.items) : \A part \in requiredParts :
          /\ constraints.items[i][part].present
          /\ validateConstraintPart(constraints.items[i][part])

\* validateSignalsStructure: an array of signals owning 'name'
validateSignalsStructure(signals) ==
    /\ signals.isArray
    /\ \A i \in 1..Len(signals.items) : signals.items[i].hasName

validateR1CSStructure(data) ==
    /\ requiredFields \subseteq data.has
    /\ validateConstraintsStructure(data.constraints)
    /\ validateSignalsStructure(data.signals)

\* signal => ({signal: String(signal.signal), coefficient: String(signal.coefficient || '0')})
sanitizeEntry(signal) ==
    [hasSignal |-> TRUE, signal |-> JsString(signal.signal),
     hasCoefficient |-> TRUE, coefficient |-> JsString(JsOr(signal.coefficient, Str(0)))]

sanitizePart(part) ==
    [part EXCEPT !.items = [k \in 1..Len(part.items) |-> sanitizeEntry(part.items[k])]]

sanitizeConstraint(constraint) ==
    [l |-> sanitizePart(constraint.l),
     r |-> sanitizePart(constraint.r),
     o |-> sanitizePart(constraint.o)]

\* { name: String(signal.name), ...signal }: an own name of signal overrides the string
sanitizeSignal(signal) ==
    [hasName |-> TRUE,
     name |-> IF signal.hasName THEN signal.name ELSE JsString(signal.name)]

processR1CSData(data) ==
    [data EXCEPT
        !.constraints.items =
            [i \in 1..Len(data.constraints.items) |-> sanitizeConstraint(data.constraints.items[i])],
        !.signals.items =
            [i \in 1..Len(data.signals.items) |-> sanitizeSignal(data.signals.items[i])]]

\* signalNames.has(signal.name) for no signal: a Set compares without conversion
checkSignalUniqueness(processedData) ==
    \A i, j \in 1..Len(processedData.signals.items) :
        i < j => processedData.signals.items[i].name # processedData.signals.items[j].name

checkNothing(processedData) == TRUE

\* processedData.signals.some(s => s.name === signal.signal) for every entry
checkConstraintConsistency(processedData) ==
    \A i \in 1..Len(processedData.constraints.items) : \A part \in requiredParts :
        \A k \in 1..Len(processedData.constraints.items[i][part].items) :
            \E j \in 1..Len(processedData.signals.items) :
                processedData.signals.items[j].name
                    = processedData.constraints.items[i][part].items[k].signal

performDetailedValidation(processedData) ==
    /\ checkSignalUniqueness(processedData)
    /\ checkConstraintConsistency(processedData)

\* readJsonFile succeeds: the file exists and holds JSON
readJsonFile(file) == file.kind = "json"

NoDocument ==
    [kind |-> "none", has |-> {}, constraints |-> [isArray |-> FALSE, items |-> <<>>],
     signals |-> [isArray |-> FALSE, items |-> <<>>]]

NotParsed == [kind |-> "none", value |-> NoDocument]

\* handleParsingError: throw in strict mode; otherwise its null is not returned by
\* parseR1CSJson, whose catch block ends without a return statement
handleParsingError(strict) ==
    IF Truthy(strict) THEN [kind |-> "thrown", value |-> NoDocument]
    ELSE [kind |-> "undefined", value |-> NoDocument]

parseR1CSJson(opts, file) ==
    IF /\ readJsonFile(file)
       /\ validateR1CSStructure(file)
       /\ performDetailedValidation(processR1CSData(file))
    THEN [kind |-> "value", value |-> processR1CSData(file)]
    ELSE handleParsingError(strictMode(opts))

\* JSON.parse(JSON.stringify(x)) of an entry: a property holding undefined is dropped
ReserializeEntry(e) ==
    [hasSignal |-> e.hasSignal /\ e.signal # Undefined, signal |-> e.signal,
     hasCoefficient |-> e.hasCoefficient /\ e.coefficient # Undefined,
     coefficient |-> e.coefficient]

ReserializePart(part) ==
    [part EXCEPT !.items = [k \in 1..Len(part.items) |-> ReserializeEntry(part.items[k])]]

\* the file written from a parsed system and read again
Reserialize(data) ==
    [data EXCEPT
        !.constraints.items =
            [i \in 1..Len(data.constraints.items) |->
                [l |-> ReserializePart(data.constraints.items[i].l),
                 r |-> ReserializePart(data.constraints.items[i].r),
                 o |-> ReserializePart(data.constraints.items[i].o)]],
        !.signals.items =
            [i \in 1..Len(data.signals.items) |->
                [hasName |-> data.signals.items[i].hasName
                                /\ data.signals.items[i].name # Undefined,
                 name |-> data.signals.items[i].name]]]

(* Documents the loader is run on *)

Entry(signal, coefficient) ==
    [hasSignal |-> signal # Undefined, signal |-> signal,
     hasCoefficient |-> coefficient # Undefined, coefficient |-> coefficient]

Coefficients == {Num(0), Num(MaxName - 1), Str(1), EmptyString, EmptyArray}

Entries ==
    {Entry(Undefined, Str(1)), Entry(Str(1), Undefined)}
        \cup {Entry(Str(1), c) : c \in Coefficients}
        \cup {Entry(Num(1), Str(1)), Entry(Str(MaxName), Str(1))}

MissingPart == [present |-> FALSE, isArray |-> FALSE, items |-> <<>>]

ArrayPart(items) == [present |-> TRUE, isArray |-> TRUE, items |-> items]

SeqsUpTo(S, n) == UNION {[1..k -> S] : k \in 0..n}

LeftParts ==
    {MissingPart, [present |-> TRUE, isArray |-> FALSE, items |-> <<>>]}
        \cup {ArrayPart(items) : items \in SeqsUpTo(Entries, MaxPartEntries)}

RightParts == {MissingPart, ArrayPart(<<>>)}

OutputParts == {MissingPart, ArrayPart(<<>>), ArrayPart(<<Entry(Str(1), Str(1))>>)}

DocConstraints == [l : LeftParts, r : RightParts, o : OutputParts]

DocSignals ==
    {[hasName |-> FALSE, name |-> Undefined]}
        \cup {[hasName |-> TRUE, name |-> n] : n \in {Num(1)} \cup {Str(k) : k \in 1..MaxName}}

Lists(S, n) ==
    {[isArray |-> FALSE, items |-> <<>>]}
        \cup {[isArray |-> TRUE, items |-> items] : items \in SeqsUpTo(S, n)}

R1CSFiles ==
    {[NoDocument EXCEPT !.kind = "missing"], [NoDocument EXCEPT !.kind = "invalid"]}
        \cup [kind : {"json"},
              has : {requiredFields} \cup {requiredFields \ {f} : f \in requiredFields},
              constraints : Lists(DocConstraints, MaxDocConstraints),
              signals : Lists(DocSignals, MaxDocSignals)]

StrictModeOptions == {Undefined, Bool(FALSE), Bool(TRUE)}

ParserIdle ==
    /\ options = Undefined
    /\ rawData = NoDocument
    /\ ppc = "idle"
    /\ parsed = NotParsed
    /\ reparsed = NotParsed

NoCode == 0 - 1

WitnessIdle ==
    /\ wentry = "none"
    /\ wargc = 0
    /\ procs = 0
    /\ started = 0
    /\ wpc = "idle"
    /\ childCode = NoCode
    /\ outcome = "pending"

----------------------------------------------------------------------------
(* Inputs of the graph analysis                                            *)

PartsUpTo(n) == { p \in SUBSET (0..NSignals) : Cardinality(p) <= n }

DriverParts == PartsUpTo(MaxDrivers)
DrivenParts == PartsUpTo(MaxDriven)

\* [L, R, O] triples, and arrays of another length (rejected by the length test)
TripleConstraints == { <<l, r, o>> : l \in DriverParts, r \in DriverParts, o \in DrivenParts }
MalformedConstraints == { <<l, r>> : l \in DriverParts, r \in DriverParts }
ConstraintValues == TripleConstraints \cup MalformedConstraints

ConstraintLists == UNION { [1..n -> ConstraintValues] : n \in 0..MaxConstraints }

R1CSInputs ==
    { [kind |-> "ok", constraints |-> cs] : cs \in ConstraintLists }
    \cup { [kind |-> k, constraints |-> <<>>] : k \in {"missing", "unparsable", "noConstraints"} }

----------------------------------------------------------------------------
(* Specification of the graph analysis                                     *)

GraphIdle ==
    /\ r1cs = [kind |-> "missing", constraints |-> <<>>]
    /\ gpc = "idle"
    /\ gres = NoAnalysis

InitGraph ==
    /\ r1cs \in R1CSInputs
    /\ gpc = "start"
    /\ gres = NoAnalysis
    /\ NullIdle
    /\ FuzzIdle
    /\ RunIdle
    /\ ParserIdle
    /\ WitnessIdle

AnalyzeR1CS ==
    /\ gpc = "start"
    /\ gres' = analyzeR1CSConstraints(r1cs)
    /\ gpc' = "done"
    /\ UNCHANGED <<r1cs, nullVars, fuzzVars, runVars, parserVars, witnessVars>>

NextGraph == AnalyzeR1CS

SpecGraph == InitGraph /\ [][NextGraph]_vars

----------------------------------------------------------------------------
(* Specification of the nullifier-reuse analysis                           *)

InitNull ==
    /\ poseidon \in {"injective", "colliding"}
    /\ testCases = <<>>
    /\ npc = "start"
    /\ nreport = NoReport
    /\ GraphIdle
    /\ FuzzIdle
    /\ RunIdle
    /\ ParserIdle
    /\ WitnessIdle

\* a direct call of the method with scenarios of the caller's choice
AnalyzeNullifierReuse ==
    /\ npc = "start"
    /\ \E tcs \in TestCaseLists :
          /\ testCases' = tcs
          /\ nreport' = analyzeNullifierReuse(tcs, poseidon)
    /\ npc' = "done"
    /\ UNCHANGED <<poseidon, graphVars, fuzzVars, runVars, parserVars, witnessVars>>

\* runNullifierVulnerabilityTest: the built-in scenarios, then the analysis
RunNullifierVulnerabilityTest ==
    /\ npc = "start"
    /\ testCases' = generateVulnerabilityTestCases
    /\ nreport' = analyzeNullifierReuse(generateVulnerabilityTestCases, poseidon)
    /\ npc' = "done"
    /\ UNCHANGED <<poseidon, graphVars, fuzzVars, runVars, parserVars, witnessVars>>

NextNull == AnalyzeNullifierReuse \/ RunNullifierVulnerabilityTest

SpecNull == InitNull /\ [][NextNull]_vars

----------------------------------------------------------------------------
(* Specification of testForUnderconstrainedVariables                       *)

\* constraint artifacts the pass may find when it reaches the static analysis
FuzzR1CSInputs ==
    { [kind |-> "missing", constraints |-> <<>>],
      [kind |-> "ok", constraints |-> <<>>],
      [kind |-> "ok", constraints |-> << <<{1}, {2}, {3}>> >>],
      [kind |-> "ok", constraints |-> << <<{1}, {2}, {1}>>, <<{3}, {}, {3}>> >>],
      [kind |-> "ok", constraints |-> << <<{1}, {1}, {}>>, <<{2}, {2}, {}>> >>] }

InitFuzz ==
    /\ heap \in TemplateHeaps
    /\ template0 = ValueOf(heap, inputTemplate)
    /\ fpc = "start"
    /\ witness1 = 0
    /\ baselineWitness = 0
    /\ w0Source = "none"
    /\ findings = <<>>
    /\ modifiedInput = NullRef
    /\ mutations = <<>>
    /\ gi = 0
    /\ lastSelected = <<>>
    /\ ti = 0
    /\ mutationFindings = <<>>
    /\ lastTrial = NoTrial
    /\ genCalls = NoCalls
    /\ returned = NotReturned
    /\ GraphIdle
    /\ NullIdle
    /\ RunIdle
    /\ ParserIdle
    /\ WitnessIdle

\* the outer catch: return this.analyzeCircuitStatically()
StaticReturn ==
    /\ \E source \in CircuitSources :
          returned' = [kind |-> "static", value |-> analyzeCircuitStatically(source)]
    /\ fpc' = "done"

OnBaselineErrorContinue(pc) == [fpc |-> "probe", returned |-> NotReturned]

\* the inner catch of the baseline step: return [{error: 'witness_error', ...}]
OnBaselineError(pc) ==
    [fpc |-> "done", returned |-> [kind |-> "witness_error", value |-> <<WitnessError>>]]

\* objects and arrays created after `before` go out of scope; writes to older ones stay
Release(h, before) ==
    [objs |-> SubSeq(h.objs, 1, Len(before.objs)),
     arrs |-> SubSeq(h.arrs, 1, Len(before.arrs))]

\* fs.writeFileSync(inputPath, ...) throws
BaselineWriteFails ==
    /\ fpc = "start"
    /\ StaticReturn
    /\ UNCHANGED <<heap, template0, witness1, baselineWitness, w0Source, findings, modifiedInput, mutations,
                   gi, lastSelected, ti, mutationFindings, lastTrial, genCalls>>
    /\ UNCHANGED <<graphVars, nullVars, runVars, parserVars, witnessVars>>

\* ../circuits/witness/witness1.wtns exists and is copied
BaselineCopied ==
    /\ fpc = "start"
    /\ \E w \in Witnesses : witness1' = w
    /\ \E g \in {0} \cup Witnesses : baselineWitness' = g
    /\ w0Source' = "copied"
    /\ fpc' = "probe"
    /\ UNCHANGED <<heap, template0, findings, modifiedInput, mutations, gi, lastSelected,
                   ti, mutationFindings, lastTrial, genCalls, returned>>
    /\ UNCHANGED <<graphVars, nullVars, runVars, parserVars, witnessVars>>

\* ../circuits/witness/witness1.wtns exists and copyFileSync throws
BaselineCopyFails ==
    /\ fpc = "start"
    /\ w0Source' = "failed"
    /\ fpc' = OnBaselineError(fpc).fpc
    /\ returned' = OnBaselineError(fpc).returned
    /\ UNCHANGED <<heap, template0, witness1, baselineWitness, findings, modifiedInput, mutations, gi,
                   lastSelected, ti, mutationFindings, lastTrial, genCalls>>
    /\ UNCHANGED <<graphVars, nullVars, runVars, parserVars, witnessVars>>

\* snarkjs wtns calculate succeeds on the baseline input
BaselineGenerated ==
    /\ fpc = "start"
    /\ \E w \in Witnesses : /\ witness1' = w
                             /\ baselineWitness' = w
    /\ w0Source' = "generated"
    /\ genCalls' = [genCalls EXCEPT !.baseline = @ + 1]
    /\ fpc' = "probe"
    /\ UNCHANGED <<heap, template0, findings, modifiedInput, mutations, gi, lastSelected,
                   ti, mutationFindings, lastTrial, returned>>
    /\ UNCHANGED <<graphVars, nullVars, runVars, parserVars, witnessVars>>

\* snarkjs wtns calculate fails on the baseline input
BaselineRejected ==
    /\ fpc = "start"
    /\ w0Source' = "failed"
    /\ genCalls' = [genCalls EXCEPT !.baseline = @ + 1]
    /\ fpc' = OnBaselineError(fpc).fpc
    /\ returned' = OnBaselineError(fpc).returned
    /\ UNCHANGED <<heap, template0, witness1, baselineWitness, findings, modifiedInput, mutations, gi,
                   lastSelected, ti, mutationFindings, lastTrial>>
    /\ UNCHANGED <<graphVars, nullVars, runVars, parserVars, witnessVars>>

\* if (modifiedInput.nullifierHash): strings of digits and arrays are truthy
HasNullifierHash(h, ref) == HasKey(h.objs[ref], "nullifierHash")

\* modifiedInput = JSON.parse(JSON.stringify(validInput)); nullifierHash = random
ProbeInput(h, r) ==
    LET h1 == CloneInput(h, generateInput(inputTemplate))
    IN  SetScalar(h1, NewestRef(h1), KeyIndex(h1.objs[NewestRef(h1)], "nullifierHash"),
                  generateRandomFieldElement(r))

ProbeNeverShortCircuits(fs) == FALSE

\* if (findings.length > 0) return findings
ProbeShortCircuits(fs) == Len(fs) > 0

\* no nullifierHash in the input: the bypass test is skipped
ProbeSkipped ==
    /\ fpc = "probe"
    /\ ~HasNullifierHash(heap, generateInput(inputTemplate))
    /\ heap' = Release(CloneInput(heap, generateInput(inputTemplate)), heap)
    /\ fpc' = "generate"
    /\ UNCHANGED <<template0, witness1, baselineWitness, w0Source, findings, modifiedInput, mutations, gi,
                   lastSelected, ti, mutationFindings, lastTrial, genCalls, returned>>
    /\ UNCHANGED <<graphVars, nullVars, runVars, parserVars, witnessVars>>

\* writing nullifier-test-input.json throws: caught by the probe's own catch
ProbeWriteFails ==
    /\ fpc = "probe"
    /\ HasNullifierHash(heap, generateInput(inputTemplate))
    /\ \E r \in RandomDraws : heap' = Release(ProbeInput(heap, r), heap)
    /\ fpc' = "generate"
    /\ UNCHANGED <<template0, witness1, baselineWitness, w0Source, findings, modifiedInput, mutations, gi,
                   lastSelected, ti, mutationFindings, lastTrial, genCalls, returned>>
    /\ UNCHANGED <<graphVars, nullVars, runVars, parserVars, witnessVars>>

\* the generator rejects the tampered nullifierHash
ProbeRejected ==
    /\ fpc = "probe"
    /\ HasNullifierHash(heap, generateInput(inputTemplate))
    /\ \E r \in RandomDraws : heap' = Release(ProbeInput(heap, r), heap)
    /\ genCalls' = [genCalls EXCEPT !.probe = @ + 1]
    /\ fpc' = "generate"
    /\ UNCHANGED <<template0, witness1, baselineWitness, w0Source, findings, modifiedInput, mutations, gi,
                   lastSelected, ti, mutationFindings, lastTrial, returned>>
    /\ UNCHANGED <<graphVars, nullVars, runVars, parserVars, witnessVars>>

\* the generator accepts the tampered nullifierHash: findings.push, then line 645
ProbeAccepted ==
    /\ fpc = "probe"
    /\ HasNullifierHash(heap, generateInput(inputTemplate))
    /\ \E r \in RandomDraws :
          /\ heap' = ProbeInput(heap, r)
          /\ modifiedInput' = NewestRef(ProbeInput(heap, r))
    /\ genCalls' = [genCalls EXCEPT !.probe = @ + 1]
    /\ findings' = Append(findings, ProbeFinding)
    /\ IF ProbeShortCircuits(findings')
       THEN fpc' = "done" /\ returned' = [kind |-> "probe", value |-> findings']
       ELSE fpc' = "generate" /\ returned' = returned
    /\ UNCHANGED <<template0, witness1, baselineWitness, w0Source, mutations, gi, lastSelected, ti,
                   mutationFindings, lastTrial>>
    /\ UNCHANGED <<graphVars, nullVars, runVars, parserVars, witnessVars>>

\* one iteration of the loop of generateMutatedInputs on an empty template: continue
GenerateSkipsEmpty ==
    /\ fpc = "generate"
    /\ gi < SweepCount
    /\ Len(heap.objs[inputTemplate].keys) = 0
    /\ heap' = Release(CloneInput(heap, inputTemplate), heap)
    /\ gi' = gi + 1
    /\ lastSelected' = <<>>
    /\ UNCHANGED <<template0, fpc, witness1, baselineWitness, w0Source, findings, modifiedInput, mutations,
                   ti, mutationFindings, lastTrial, genCalls, returned>>
    /\ UNCHANGED <<graphVars, nullVars, runVars, parserVars, witnessVars>>

\* one iteration of the loop of generateMutatedInputs: copy, mutate, push
GenerateMutant ==
    /\ fpc = "generate"
    /\ gi < SweepCount
    /\ Len(heap.objs[inputTemplate].keys) > 0
    /\ \E picks \in MutationDraws(heap, inputTemplate) :
          /\ heap' = MutateCopy(heap, inputTemplate, picks)
          /\ mutations' = Append(mutations, NewestRef(heap'))
          /\ lastSelected' = [j \in 1..Len(picks) |-> heap.objs[inputTemplate].keys[picks[j].key]]
    /\ gi' = gi + 1
    /\ UNCHANGED <<template0, fpc, witness1, baselineWitness, w0Source, findings, modifiedInput, ti,
                   mutationFindings, lastTrial, genCalls, returned>>
    /\ UNCHANGED <<graphVars, nullVars, runVars, parserVars, witnessVars>>

\* return mutations; the sweep starts
ReturnMutations ==
    /\ fpc = "generate"
    /\ gi = SweepCount
    /\ fpc' = "trial"
    /\ ti' = 0
    /\ lastSelected' = <<>>
    /\ UNCHANGED <<heap, template0, witness1, baselineWitness, w0Source, findings, modifiedInput, mutations,
                   gi, mutationFindings, lastTrial, genCalls, returned>>
    /\ UNCHANGED <<graphVars, nullVars, runVars, parserVars, witnessVars>>

\* writing mutated-input-i.json throws: the outer catch
TrialWriteFails ==
    /\ fpc = "trial"
    /\ ti < Len(mutations)
    /\ StaticReturn
    /\ UNCHANGED <<heap, template0, witness1, baselineWitness, w0Source, findings, modifiedInput, mutations,
                   gi, lastSelected, ti, mutationFindings, lastTrial, genCalls>>
    /\ UNCHANGED <<graphVars, nullVars, runVars, parserVars, witnessVars>>

\* the generator rejects mutant ti
TrialRejected ==
    /\ fpc = "trial"
    /\ ti < Len(mutations)
    /\ genCalls' = [genCalls EXCEPT !.mutant = @ + 1]
    /\ lastTrial' = [index |-> ti + 1, accepted |-> FALSE, witness |-> 0, added |-> FALSE]
    /\ ti' = ti + 1
    /\ UNCHANGED <<heap, template0, fpc, witness1, baselineWitness, w0Source, findings, modifiedInput,
                   mutations, gi, lastSelected, mutationFindings, returned>>
    /\ UNCHANGED <<graphVars, nullVars, runVars, parserVars, witnessVars>>

\* the generator accepts mutant ti; its witness is compared with witness1.wtns
TrialAccepted ==
    /\ fpc = "trial"
    /\ ti < Len(mutations)
    /\ \E w \in Witnesses :
          /\ mutationFindings' = IF WitnessesEqual(witness1, w)
                                 THEN Append(mutationFindings, MutationFinding(ti))
                                 ELSE mutationFindings
          /\ lastTrial' = [index |-> ti + 1, accepted |-> TRUE, witness |-> w,
                           added |-> Len(mutationFindings') > Len(mutationFindings)]
    /\ genCalls' = [genCalls EXCEPT !.mutant = @ + 1]
    /\ ti' = ti + 1
    /\ UNCHANGED <<heap, template0, fpc, witness1, baselineWitness, w0Source, findings, modifiedInput,
                   mutations, gi, lastSelected, returned>>
    /\ UNCHANGED <<graphVars, nullVars, runVars, parserVars, witnessVars>>

\* if (mutationFindings.length > 0) return mutationFindings
ReturnMutationFindings ==
    /\ fpc = "trial"
    /\ ti = Len(mutations)
    /\ Len(mutationFindings) > 0
    /\ returned' = [kind |-> "mutation", value |-> mutationFindings]
    /\ fpc' = "done"
    /\ UNCHANGED <<heap, template0, witness1, baselineWitness, w0Source, findings, modifiedInput, mutations,
                   gi, lastSelected, ti, mutationFindings, lastTrial, genCalls>>
    /\ UNCHANGED <<graphVars, nullVars, runVars, parserVars, witnessVars>>

\* snarkjs r1cs export json throws: the outer catch
ExportFails ==
    /\ fpc = "trial"
    /\ ti = Len(mutations)
    /\ Len(mutationFindings) = 0
    /\ StaticReturn
    /\ UNCHANGED <<heap, template0, witness1, baselineWitness, w0Source, findings, modifiedInput, mutations,
                   gi, lastSelected, ti, mutationFindings, lastTrial, genCalls>>
    /\ UNCHANGED <<graphVars, nullVars, runVars, parserVars, witnessVars>>

\* basicFindings = await this.analyzeR1CSConstraints(r1csJsonPath); return basicFindings
RunR1CSAnalysis ==
    /\ fpc = "trial"
    /\ ti = Len(mutations)
    /\ Len(mutationFindings) = 0
    /\ \E data \in FuzzR1CSInputs :
          /\ r1cs' = data
          /\ gres' = analyzeR1CSConstraints(data)
    /\ gpc' = "done"
    /\ returned' = [kind |-> "analysis", value |-> gres'.findings]
    /\ fpc' = "done"
    /\ UNCHANGED <<heap, template0, witness1, baselineWitness, w0Source, findings, modifiedInput, mutations,
                   gi, lastSelected, ti, mutationFindings, lastTrial, genCalls>>
    /\ UNCHANGED <<nullVars, runVars, parserVars, witnessVars>>

\* execSync(`snarkjs wtns calculate ...`) is called without a timeout option:
\* a generator that never returns blocks the pass in the call
BaselineHangs ==
    /\ fpc = "start"
    /\ genCalls' = [genCalls EXCEPT !.baseline = @ + 1]
    /\ fpc' = "blocked"
    /\ UNCHANGED <<heap, template0, witness1, baselineWitness, w0Source, findings,
                   modifiedInput, mutations, gi, lastSelected, ti, mutationFindings,
                   lastTrial, returned>>
    /\ UNCHANGED <<graphVars, nullVars, runVars, parserVars, witnessVars>>

\* the generator never returns on the probe's input
ProbeHangs ==
    /\ fpc = "probe"
    /\ HasNullifierHash(heap, generateInput(inputTemplate))
    /\ \E r \in RandomDraws :
          /\ heap' = ProbeInput(heap, r)
          /\ modifiedInput' = NewestRef(ProbeInput(heap, r))
    /\ genCalls' = [genCalls EXCEPT !.probe = @ + 1]
    /\ fpc' = "blocked"
    /\ UNCHANGED <<template0, witness1, baselineWitness, w0Source, findings, mutations,
                   gi, lastSelected, ti, mutationFindings, lastTrial, returned>>
    /\ UNCHANGED <<graphVars, nullVars, runVars, parserVars, witnessVars>>

\* the generator never returns on mutant ti
TrialHangs ==
    /\ fpc = "trial"
    /\ ti < Len(mutations)
    /\ genCalls' = [genCalls EXCEPT !.mutant = @ + 1]
    /\ fpc' = "blocked"
    /\ UNCHANGED <<heap, template0, witness1, baselineWitness, w0Source, findings,
                   modifiedInput, mutations, gi, lastSelected, ti, mutationFindings,
                   lastTrial, returned>>
    /\ UNCHANGED <<graphVars, nullVars, runVars, parserVars, witnessVars>>

NextFuzz ==
    \/ BaselineWriteFails
    \/ BaselineCopied
    \/ BaselineCopyFails
    \/ BaselineGenerated
    \/ BaselineRejected
    \/ ProbeSkipped
    \/ ProbeWriteFails
    \/ ProbeRejected
    \/ ProbeAccepted
    \/ GenerateSkipsEmpty
    \/ GenerateMutant
    \/ ReturnMutations
    \/ TrialWriteFails
    \/ TrialRejected
    \/ TrialAccepted
    \/ ReturnMutationFindings
    \/ ExportFails
    \/ RunR1CSAnalysis
    \/ BaselineHangs
    \/ ProbeHangs
    \/ TrialHangs

SpecFuzz == InitFuzz /\ [][NextFuzz]_vars

\* the pass under the scheduling of a single-threaded run: a step that can be
\* taken is eventually taken
SpecFuzzLive == SpecFuzz /\ WF_vars(NextFuzz)

----------------------------------------------------------------------------
(* testForUnsafeReuse                                                      *)
(* The circuit source is modelled by its component instantiations in order *)
(* of occurrence and the set of components whose .out is bound by <== or   *)
(* ===; component names are numbered from 201, types from 301.             *)

ReuseFinding(potentialIssues) ==
    [Finding("potential-unsafe-reuse", "high", NoSignal, <<>>)
        EXCEPT !.components = potentialIssues]

RECURSIVE PotentialIssues(_, _)
PotentialIssues(components, usedOutputs) ==
    IF components = <<>> THEN <<>>
    ELSE (IF Head(components).component \in usedOutputs THEN <<>>
          ELSE <<Head(components)>>)
         \o PotentialIssues(Tail(components), usedOutputs)

\* [] for a missing file and from the catch; one finding when some output is unused
testForUnsafeReuse(source) ==
    IF ~source.exists \/ ~source.readable THEN <<>>
    ELSE IF Len(PotentialIssues(source.components, source.usedOutputs)) > 0
         THEN <<ReuseFinding(PotentialIssues(source.components, source.usedOutputs))>>
         ELSE <<>>

ReuseSources ==
    { [exists |-> FALSE, readable |-> FALSE, components |-> <<>>, usedOutputs |-> {}],
      [exists |-> TRUE, readable |-> FALSE, components |-> <<>>, usedOutputs |-> {}],
      [exists |-> TRUE, readable |-> TRUE,
       components |-> <<[component |-> 201, type |-> 301]>>, usedOutputs |-> {201}],
      [exists |-> TRUE, readable |-> TRUE,
       components |-> <<[component |-> 201, type |-> 301]>>, usedOutputs |-> {}] }

----------------------------------------------------------------------------
(* Specification of the CLI action and runAllTests                         *)

\* templates handed to testForUnderconstrainedVariables in a run: {} and
\* {nullifierHash: '0'}
RunTemplateHeaps == {TemplateHeap(FALSE, FALSE, 0 - 1), TemplateHeap(TRUE, FALSE, 0 - 1)}

\* values of --iterations: the default '50', '3', '0' and a non-numeral
IterationArgs == {"50", "3", "0", "abc"}

NaN == 0 - 2

\* parseInt(options.iterations) on the option texts above
parseInt(text) ==
    CASE text = "50" -> 50
      [] text = "3" -> 3
      [] text = "0" -> 0
      [] OTHER -> NaN

defaultIterations == 100

\* this.iterations = options.iterations || 100: 0 and NaN are falsy
constructorIterations(n) == IF n = 0 \/ n = NaN THEN defaultIterations ELSE n

InitRun ==
    /\ rpc = "cli"
    /\ iterations = 0
    /\ given = FALSE
    /\ compiled = "none"
    /\ runVulnerabilities = <<>>
    /\ report = NoReportFile
    /\ exitStatus = 0
    /\ setupFailure = "none"
    /\ GraphIdle
    /\ NullIdle
    /\ FuzzIdle
    /\ ParserIdle
    /\ WitnessIdle

\* process.exit(1) on a failed setup step
SetupFails(step) ==
    /\ rpc = "cli"
    /\ setupFailure' = step
    /\ exitStatus' = 1
    /\ rpc' = "exited"
    /\ UNCHANGED <<iterations, given, compiled, runVulnerabilities, report>>
    /\ UNCHANGED <<graphVars, nullVars, fuzzVars, parserVars, witnessVars>>

\* if (!fs.existsSync(circuitPath)) process.exit(1)
CircuitMissing == SetupFails("circuit")

\* reading, parsing, preprocessing or writing the input file throws
InputFileFails == SetupFails("input")

\* new CircomFuzzer(...) throws in fs.mkdirSync: the outer catch of the action
OutputDirFails == SetupFails("outputDir")

\* the template file is missing or does not parse
TemplateFileFails == SetupFails("template")

\* every setup step passed: new CircomFuzzer(circuitPath, {iterations:
\* parseInt(options.iterations), ...}); runAllTests(specificInput || inputTemplate)
\* is entered
SetupDone ==
    /\ rpc = "cli"
    /\ \E arg \in IterationArgs : iterations' = constructorIterations(parseInt(arg))
    /\ given' \in BOOLEAN
    /\ rpc' = "compile"
    /\ UNCHANGED <<compiled, runVulnerabilities, report, exitStatus, setupFailure>>
    /\ UNCHANGED <<graphVars, nullVars, fuzzVars, parserVars, witnessVars>>

\* if (!await this.compileCircuit()) return []
CompileFails ==
    /\ rpc = "compile"
    /\ compiled' = "failed"
    /\ runVulnerabilities' = <<>>
    /\ rpc' = "report"
    /\ UNCHANGED <<iterations, given, report, exitStatus, setupFailure>>
    /\ UNCHANGED <<graphVars, nullVars, fuzzVars, parserVars, witnessVars>>

CompileSucceeds ==
    /\ rpc = "compile"
    /\ compiled' = "ok"
    /\ rpc' = "inputs"
    /\ UNCHANGED <<iterations, given, runVulnerabilities, report, exitStatus, setupFailure>>
    /\ UNCHANGED <<graphVars, nullVars, fuzzVars, parserVars, witnessVars>>

\* no template was given and analyzeCircuitInputs returns null: return []
InputsUndetermined ==
    /\ rpc = "inputs"
    /\ ~given
    /\ runVulnerabilities' = <<>>
    /\ rpc' = "report"
    /\ UNCHANGED <<iterations, given, compiled, report, exitStatus, setupFailure>>
    /\ UNCHANGED <<graphVars, nullVars, fuzzVars, parserVars, witnessVars>>

\* const vulnerabilities = []; testForUnderconstrainedVariables(inputTemplate) is
\* entered; a template derived by analyzeCircuitInputs has at least one key
BeginUnderconstrained ==
    /\ rpc = "inputs"
    /\ \E h \in RunTemplateHeaps :
          /\ given \/ Len(h.objs[inputTemplate].keys) > 0
          /\ heap' = h
          /\ template0' = ValueOf(h, inputTemplate)
    /\ fpc' = "start"
    /\ runVulnerabilities' = <<>>
    /\ rpc' = "underconstrained"
    /\ UNCHANGED <<witness1, baselineWitness, w0Source, findings, modifiedInput, mutations,
                   gi, lastSelected, ti, mutationFindings, lastTrial, genCalls, returned>>
    /\ UNCHANGED <<iterations, given, compiled, report, exitStatus, setupFailure>>
    /\ UNCHANGED <<graphVars, nullVars, parserVars, witnessVars>>

\* vulnerabilities.push(...underconstrainedVulns)
CollectUnderconstrained ==
    /\ rpc = "underconstrained"
    /\ fpc = "done"
    /\ runVulnerabilities' = runVulnerabilities \o returned.value
    /\ rpc' = "reuse"
    /\ UNCHANGED <<iterations, given, compiled, report, exitStatus, setupFailure>>
    /\ UNCHANGED <<graphVars, nullVars, fuzzVars, parserVars, witnessVars>>

\* vulnerabilities.push(...await this.testForUnsafeReuse()); return vulnerabilities
TestForUnsafeReuse ==
    /\ rpc = "reuse"
    /\ \E source \in ReuseSources :
          runVulnerabilities' = runVulnerabilities \o testForUnsafeReuse(source)
    /\ rpc' = "report"
    /\ UNCHANGED <<iterations, given, compiled, report, exitStatus, setupFailure>>
    /\ UNCHANGED <<graphVars, nullVars, fuzzVars, parserVars, witnessVars>>

\* fs.writeFileSync(reportPath, ...) succeeds; the action ends and the process exits 0
WriteReport ==
    /\ rpc = "report"
    /\ report' = [written |-> TRUE, vulnerabilities |-> runVulnerabilities]
    /\ exitStatus' = 0
    /\ rpc' = "exited"
    /\ UNCHANGED <<iterations, given, compiled, runVulnerabilities, setupFailure>>
    /\ UNCHANGED <<graphVars, nullVars, fuzzVars, parserVars, witnessVars>>

\* fs.writeFileSync(reportPath, ...) throws: the outer catch, process.exit(1)
WriteReportFails ==
    /\ rpc = "report"
    /\ exitStatus' = 1
    /\ rpc' = "exited"
    /\ UNCHANGED <<iterations, given, compiled, runVulnerabilities, report, setupFailure>>
    /\ UNCHANGED <<graphVars, nullVars, fuzzVars, parserVars, witnessVars>>

NextRun ==
    \/ CircuitMissing
    \/ InputFileFails
    \/ OutputDirFails
    \/ TemplateFileFails
    \/ SetupDone
    \/ CompileFails
    \/ CompileSucceeds
    \/ InputsUndetermined
    \/ BeginUnderconstrained
    \/ NextFuzz
    \/ CollectUnderconstrained
    \/ TestForUnsafeReuse
    \/ WriteReport
    \/ WriteReportFails

SpecRun == InitRun /\ [][NextRun]_vars

----------------------------------------------------------------------------
(* Specification of the constraint-system loader                           *)

InitParse ==
    /\ options \in StrictModeOptions
    /\ rawData \in R1CSFiles
    /\ ppc = "start"
    /\ parsed = NotParsed
    /\ reparsed = NotParsed
    /\ GraphIdle
    /\ NullIdle
    /\ FuzzIdle
    /\ RunIdle
    /\ WitnessIdle

\* new R1CSParser({strictMode: options}).parseR1CSJson(path of rawData)
ParseR1CSJson ==
    /\ ppc = "start"
    /\ parsed' = parseR1CSJson(options, rawData)
    /\ ppc' = "parsed"
    /\ UNCHANGED <<options, rawData, reparsed>>
    /\ UNCHANGED <<graphVars, nullVars, fuzzVars, runVars, witnessVars>>

\* the parsed system is written out as JSON and that file is parsed again
ReparseSerialized ==
    /\ ppc = "parsed"
    /\ parsed.kind = "value"
    /\ reparsed' = parseR1CSJson(options, Reserialize(parsed.value))
    /\ ppc' = "reparsed"
    /\ UNCHANGED <<options, rawData, parsed>>
    /\ UNCHANGED <<graphVars, nullVars, fuzzVars, runVars, witnessVars>>

NextParse == ParseR1CSJson \/ ReparseSerialized

SpecParse == InitParse /\ [][NextParse]_vars

----------------------------------------------------------------------------
(* generateWitness (witness_calculator.js) and generate_witness.js         *)
(* generateWitness spawns `node generate_witness.js wasm input output`;    *)
(* that script calls generateWitness with its three arguments.  The live   *)
(* processes form a chain, each waiting for the 'close' event of the one   *)
(* it spawned; only the deepest one runs.  From MaxProcs on the number of  *)
(* processes is no longer counted.                                         *)

\* process.argv.length: node, the script and three arguments
expectedArgc == 5

\* argument counts of a run of generate_witness.js from a shell
ShellArgcs == {4, 5, 6}

\* the deepest live process is a run of generate_witness.js
DeepestIsScript == procs > 0 \/ wentry = "script"

\* process.argv.length of the deepest script: a spawned one gets three arguments
DeepestArgc == IF procs > 0 THEN expectedArgc ELSE wargc

\* process.on('close', code => resolve(code === 0))
resolveOnClose(code) == code = 0

\* .then(success => process.exit(success ? 0 : 1))
exitStatusOf(success) == IF success THEN 0 ELSE 1

\* the deepest script leaves with the given status: its parent gets 'close', or,
\* for the script run from the shell, the run is over
ScriptExits(status) ==
    IF procs > 0
    THEN /\ procs' = procs - 1
         /\ childCode' = status
         /\ wpc' = "closed"
         /\ outcome' = outcome
    ELSE /\ procs' = procs
         /\ childCode' = childCode
         /\ wpc' = "settled"
         /\ outcome' = IF status = 0 THEN "exit0" ELSE "exit1"

InitWitness ==
    /\ \/ wentry = "api" /\ wargc = 0 /\ wpc = "call"
       \/ wentry = "script" /\ wargc \in ShellArgcs /\ wpc = "main"
    /\ procs = 0
    /\ started = 0
    /\ childCode = NoCode
    /\ outcome = "pending"
    /\ GraphIdle
    /\ NullIdle
    /\ FuzzIdle
    /\ RunIdle
    /\ ParserIdle

\* if (process.argv.length !== 5) { console.log(usage); process.exit(1) }
ScriptUsage ==
    /\ wpc = "main"
    /\ DeepestArgc # expectedArgc
    /\ ScriptExits(1)
    /\ UNCHANGED <<wentry, wargc, started>>
    /\ UNCHANGED <<graphVars, nullVars, fuzzVars, runVars, parserVars>>

\* generateWitness(wasmPath, inputPath, outputPath) is called by the script
ScriptCallsGenerateWitness ==
    /\ wpc = "main"
    /\ DeepestArgc = expectedArgc
    /\ wpc' = "call"
    /\ UNCHANGED <<wentry, wargc, procs, started, childCode, outcome>>
    /\ UNCHANGED <<graphVars, nullVars, fuzzVars, runVars, parserVars>>

\* spawn('node', [generate_witness.js, ...]) starts the process: it runs the script
SpawnSucceeds ==
    /\ wpc = "call"
    /\ procs' = IF procs < MaxProcs THEN procs + 1 ELSE procs
    /\ started' = IF started < MaxProcs THEN started + 1 ELSE started
    /\ wpc' = "main"
    /\ UNCHANGED <<wentry, wargc, childCode, outcome>>
    /\ UNCHANGED <<graphVars, nullVars, fuzzVars, runVars, parserVars>>

\* the process cannot be started: 'error' is emitted, reject(error)
SpawnFails ==
    /\ wpc = "call"
    /\ wpc' = "errored"
    /\ UNCHANGED <<wentry, wargc, procs, started, childCode, outcome>>
    /\ UNCHANGED <<graphVars, nullVars, fuzzVars, runVars, parserVars>>

\* the rejection reaches the caller: .catch(() => process.exit(1)) in the script
Rejected ==
    /\ wpc = "errored"
    /\ IF DeepestIsScript
       THEN ScriptExits(1)
       ELSE /\ outcome' = "rejected"
            /\ wpc' = "settled"
            /\ UNCHANGED <<procs, childCode>>
    /\ UNCHANGED <<wentry, wargc, started>>
    /\ UNCHANGED <<graphVars, nullVars, fuzzVars, runVars, parserVars>>

\* 'close' arrives: resolve(code === 0); in the script process.exit(success ? 0 : 1)
Closed ==
    /\ wpc = "closed"
    /\ IF DeepestIsScript
       THEN ScriptExits(exitStatusOf(resolveOnClose(childCode)))
       ELSE /\ outcome' = IF resolveOnClose(childCode) THEN "resolved_true"
                                                      ELSE "resolved_false"
            /\ wpc' = "settled"
            /\ UNCHANGED <<procs, childCode>>
    /\ UNCHANGED <<wentry, wargc, started>>
    /\ UNCHANGED <<graphVars, nullVars, fuzzVars, runVars, parserVars>>

\* the deepest process is terminated by a signal: 'close' with code null
ChildKilled ==
    /\ wpc \in {"main", "call"}
    /\ procs > 0
    /\ procs' = procs - 1
    /\ childCode' = NoCode
    /\ wpc' = "closed"
    /\ UNCHANGED <<wentry, wargc, started, outcome>>
    /\ UNCHANGED <<graphVars, nullVars, fuzzVars, runVars, parserVars>>

NextWitness ==
    \/ ScriptUsage
    \/ ScriptCallsGenerateWitness
    \/ SpawnSucceeds
    \/ SpawnFails
    \/ Rejected
    \/ Closed
    \/ ChildKilled

SpecWitness == InitWitness /\ [][NextWitness]_vars

\* a process that can take a step takes one
SpecWitnessLive == SpecWitness /\ WF_vars(NextWitness)

----------------------------------------------------------------------------
(* Reference notions used to state the properties of the graph analysis    *)

AllWellFormed(cs) == \A i \in 1..Len(cs) : WellFormed(cs[i])

\* non-constant signals occurring in the constraints with index in idxs
SignalsIn(cs, idxs) ==
    UNION { (cs[i][1] \cup cs[i][2] \cup cs[i][3]) \ {0} : i \in { j \in idxs : WellFormed(cs[j]) } }

SystemSignals(cs) == SignalsIn(cs, 1..Len(cs))

\* number of constraints a signal occurs in, each constraint counted once
OccurrenceCount(cs, s) ==
    Cardinality({ i \in 1..Len(cs) :
                    WellFormed(cs[i]) /\ s \in cs[i][1] \cup cs[i][2] \cup cs[i][3] })

\* dependency edges of the constraints with index in idxs, read as undirected
UndirectedEdges(cs, idxs) ==
    UNION { { {s, t} : s \in (cs[i][1] \cup cs[i][2]) \ {0}, t \in cs[i][3] \ {0} } :
            i \in { j \in idxs : WellFormed(cs[j]) } }

RECURSIVE ReachableFrom(_, _)
ReachableFrom(edges, S) ==
    LET N == S \cup { t \in UNION edges : \E s \in S : {s, t} \in edges }
    IN  IF N = S THEN S ELSE ReachableFrom(edges, N)

\* every node is an endpoint of an edge and any two nodes are linked by a path
UndirectedConnected(nodes, edges) ==
    /\ nodes # {}
    /\ nodes = UNION edges
    /\ \A s \in nodes : ReachableFrom(edges, {s}) = nodes

FindingsOfType(fs, type) == { i \in 1..Len(fs) : fs[i].type = type }

AnalysisDone == gpc = "done" /\ r1cs.kind = "ok"

ComponentSets == { Range(gres.connectedComponents[i]) : i \in 1..Len(gres.connectedComponents) }

----------------------------------------------------------------------------
(* C1: when every signal of the constraint system occurs in at least two   *)
(* constraints and the dependency graph read as undirected is connected,   *)
(* the analysis yields exactly one component, no                           *)
(* potential-unconstrained-signal finding and no                           *)
(* disconnected-constraint-graph finding.                                  *)
C1_Precondition ==
    /\ AnalysisDone
    /\ AllWellFormed(r1cs.constraints)
    /\ \A s \in SystemSignals(r1cs.constraints) : OccurrenceCount(r1cs.constraints, s) >= 2
    /\ UndirectedConnected(SystemSignals(r1cs.constraints),
                           UndirectedEdges(r1cs.constraints, 1..Len(r1cs.constraints)))

C1_ConnectedSystemOneComponent ==
    C1_Precondition =>
        /\ Len(gres.connectedComponents) = 1
        /\ FindingsOfType(gres.findings, "potential-unconstrained-signal") = {}
        /\ FindingsOfType(gres.findings, "disconnected-constraint-graph") = {}

(* C2: when the constraints split into two signal-disjoint groups, each    *)
(* connected when read as undirected, the analysis yields exactly two      *)
(* components whose signal sets are disjoint and together are all the      *)
(* non-constant signals of the system.                                     *)
TwoDisjointGroups(cs) ==
    \E G \in SUBSET (1..Len(cs)) :
        LET H == (1..Len(cs)) \ G
        IN  /\ G # {} /\ H # {}
            /\ SignalsIn(cs, G) \cap SignalsIn(cs, H) = {}
            /\ UndirectedConnected(SignalsIn(cs, G), UndirectedEdges(cs, G))
            /\ UndirectedConnected(SignalsIn(cs, H), UndirectedEdges(cs, H))

C2_Precondition ==
    /\ AnalysisDone
    /\ AllWellFormed(r1cs.constraints)
    /\ TwoDisjointGroups(r1cs.constraints)

C2_TwoGroupsTwoComponents ==
    C2_Precondition =>
        /\ Len(gres.connectedComponents) = 2
        /\ Range(gres.connectedComponents[1]) \cap Range(gres.connectedComponents[2]) = {}
        /\ Range(gres.connectedComponents[1]) \cup Range(gres.connectedComponents[2])
              = SystemSignals(r1cs.constraints)

(* C3: the usage-count check reports a signal exactly when the signal      *)
(* occurs in exactly one constraint, a constraint counting once whatever   *)
(* the number of its parts L, R, O that contain the signal.                *)
ReportedUnconstrained(s) ==
    \E i \in FindingsOfType(gres.findings, "potential-unconstrained-signal") :
        gres.findings[i].signal = s

C3_ReportedIffOneConstraint ==
    AnalysisDone =>
        \A s \in 1..NSignals :
            ReportedUnconstrained(s) <=> OccurrenceCount(r1cs.constraints, s) = 1

----------------------------------------------------------------------------
(* Properties of the nullifier-reuse analysis                              *)

NullDone == npc = "done"

GroupIndexes == 1..Len(nreport.nullifierHashes.keys)

GroupOf(g) == nreport.nullifierHashes.val[g]

FindingsForGroup(g) ==
    { v \in 1..Len(nreport.vulnerabilities) :
        nreport.vulnerabilities[v].nullifierHash = nreport.nullifierHashes.keys[g] }

(* C9: one identifier per scenario; scenarios are grouped by identifier     *)
(* value, every scenario lies in exactly one group, and a Nullifier Reuse   *)
(* finding of severity Critical exists for a group exactly when the group   *)
(* holds more than one scenario, its duplicateCases being that group.       *)
C9_GroupsAndFindings ==
    NullDone =>
        /\ \A c \in 1..Len(testCases) :
              /\ Cardinality({ g \in GroupIndexes : c \in Range(GroupOf(g)) }) = 1
              /\ \A g \in GroupIndexes :
                    Cardinality({ k \in 1..Len(GroupOf(g)) : GroupOf(g)[k] = c }) <= 1
        /\ \A g \in GroupIndexes : Range(GroupOf(g)) \subseteq 1..Len(testCases)
        /\ \A c, d \in 1..Len(testCases) :
              (\E g \in GroupIndexes : {c, d} \subseteq Range(GroupOf(g)))
                  <=> NullifierHashOf(testCases[c], poseidon) = NullifierHashOf(testCases[d], poseidon)
        /\ \A g \in GroupIndexes :
              /\ Cardinality(FindingsForGroup(g)) = (IF Len(GroupOf(g)) > 1 THEN 1 ELSE 0)
              /\ \A v \in FindingsForGroup(g) :
                    /\ nreport.vulnerabilities[v].duplicateCases = GroupOf(g)
                    /\ nreport.vulnerabilities[v].type = "Nullifier Reuse"
                    /\ nreport.vulnerabilities[v].severity = "Critical"
        /\ \A v \in 1..Len(nreport.vulnerabilities) : \E g \in GroupIndexes : v \in FindingsForGroup(g)

\* a run with a reported group of several scenarios next to an unreported single one
C9_Witness ==
    /\ NullDone
    /\ \E g \in GroupIndexes : Len(GroupOf(g)) > 1 /\ FindingsForGroup(g) # {}
    /\ \E g \in GroupIndexes : Len(GroupOf(g)) = 1 /\ FindingsForGroup(g) = {}

\* scenarios with the given merkleRoot and leaf value
CasesOfPair(root, leaf) ==
    { c \in 1..Len(testCases) :
        testCases[c].merkleRoot = root /\ testCases[c].leafValue = leaf }

RootLeafPairs == { <<testCases[c].merkleRoot, testCases[c].leafValue>> : c \in 1..Len(testCases) }

(* C10: with an injective hash, the scenarios that share merkleRoot and     *)
(* leaf value and differ only in voterIndex fall into one group, exactly    *)
(* one finding covers them, and for the built-in scenarios there is one     *)
(* finding per (merkleRoot, leafValue) pair.                                *)
C10_IndexOmittedCollides ==
    (NullDone /\ poseidon = "injective") =>
        /\ \A p \in RootLeafPairs :
              Cardinality(CasesOfPair(p[1], p[2])) > 1 =>
                  /\ \E g \in GroupIndexes : CasesOfPair(p[1], p[2]) \subseteq Range(GroupOf(g))
                  /\ Cardinality({ v \in 1..Len(nreport.vulnerabilities) :
                        CasesOfPair(p[1], p[2])
                            \subseteq Range(nreport.vulnerabilities[v].duplicateCases) }) = 1
        /\ testCases = generateVulnerabilityTestCases =>
              /\ Len(nreport.vulnerabilities) = Cardinality(RootLeafPairs)
              /\ \A v \in 1..Len(nreport.vulnerabilities) :
                    \E p \in RootLeafPairs :
                        Range(nreport.vulnerabilities[v].duplicateCases) = CasesOfPair(p[1], p[2])

\* the built-in scenarios analysed with an injective hash: four colliding groups
C10_Witness ==
    /\ NullDone
    /\ poseidon = "injective"
    /\ testCases = generateVulnerabilityTestCases
    /\ Len(nreport.vulnerabilities) = 4
    /\ \E c, d \in 1..Len(testCases) :
          /\ testCases[c].voterIndex # testCases[d].voterIndex
          /\ \E v \in 1..Len(nreport.vulnerabilities) :
                {c, d} \subseteq Range(nreport.vulnerabilities[v].duplicateCases)

----------------------------------------------------------------------------
(* Properties of testForUnderconstrainedVariables                          *)

SweepFindingFor(index) ==
    { k \in 1..Len(mutationFindings) : mutationFindings[k].mutation = index }

(* C4: a tested mutant adds an under-constrained-variable finding of        *)
(* severity high exactly when the generator accepted it and its witness     *)
(* equals W0, the witness the generator yields for the baseline input; a    *)
(* rejected mutant and a mutant whose witness differs from W0 add none.     *)
C4_FindingIffIdenticalWitness ==
    lastTrial.index > 0 =>
        /\ lastTrial.added <=>
              (lastTrial.accepted /\ lastTrial.witness = baselineWitness)
        /\ Cardinality(SweepFindingFor(lastTrial.index)) = (IF lastTrial.added THEN 1 ELSE 0)
        /\ \A k \in 1..Len(mutationFindings) :
              /\ mutationFindings[k].type = "under-constrained-variable"
              /\ mutationFindings[k].severity = "high"
              /\ mutationFindings[k].mutation <= lastTrial.index

(* C5: once the probe on nullifierHash was accepted and raised its finding, *)
(* the pass has returned exactly that finding, no mutant was generated and  *)
(* the generator was invoked for no mutant.                                 *)
C5_ProbeShortCircuitsSweep ==
    findings # <<>> =>
        /\ fpc = "done"
        /\ findings = <<ProbeFinding>>
        /\ returned = [kind |-> "probe", value |-> findings]
        /\ mutations = <<>>
        /\ gi = 0
        /\ genCalls.mutant = 0
        /\ mutationFindings = <<>>
        /\ gpc = "idle"

\* the generator accepted the tampered nullifierHash and the pass returned
C5_Witness ==
    /\ findings # <<>>
    /\ genCalls.probe = 1
    /\ modifiedInput # NullRef
    /\ returned.kind = "probe"

(* C6: after a failed baseline witness step the pass has returned, the      *)
(* generator is not invoked again (no probe, no mutation trial) and no      *)
(* constraint-graph analysis runs.                                          *)
C6_BaselineFailureFatal ==
    w0Source = "failed" =>
        /\ fpc = "done"
        /\ returned.kind = "witness_error"
        /\ genCalls.baseline <= 1
        /\ genCalls.probe = 0
        /\ genCalls.mutant = 0
        /\ mutations = <<>>
        /\ gpc = "idle"

\* the generator was invoked on the baseline input and failed
C6_Witness ==
    /\ w0Source = "failed"
    /\ genCalls.baseline = 1
    /\ returned.kind = "witness_error"

(* C7: the keys drawn for one mutant are pairwise distinct and their        *)
(* number k satisfies 1 <= k <= min(3, n), n the number of template keys.   *)
C7_SelectedKeysDistinct ==
    lastSelected # <<>> =>
        /\ \A a, b \in 1..Len(lastSelected) : a # b => lastSelected[a] # lastSelected[b]
        /\ Len(lastSelected) >= 1
        /\ Len(lastSelected) <= 3
        /\ Len(lastSelected) <= Len(heap.objs[inputTemplate].keys)

\* the probe's copy and the mutants alive in the pass, by position
CopyRefs == mutations \o (IF modifiedInput = NullRef THEN <<>> ELSE <<modifiedInput>>)

(* C8: the template keeps the value it had when the pass was entered, and   *)
(* no copy (the probe's input, a mutant) is the template object, shares an  *)
(* array with it, or shares an object or an array with another copy.        *)
C8_CopiesIndependent ==
    fpc # "idle" =>
        /\ ValueOf(heap, inputTemplate) = template0
        /\ \A a \in 1..Len(CopyRefs) :
              /\ CopyRefs[a] # inputTemplate
              /\ ArraysOf(heap, CopyRefs[a]) \cap ArraysOf(heap, inputTemplate) = {}
              /\ \A b \in 1..Len(CopyRefs) :
                    a # b => /\ CopyRefs[a] # CopyRefs[b]
                             /\ ArraysOf(heap, CopyRefs[a]) \cap ArraysOf(heap, CopyRefs[b]) = {}

\* three mutants exist, one with an array element changed, and the pass has returned
C8_Witness ==
    /\ fpc = "done"
    /\ Len(mutations) = 3
    /\ \E a \in 1..3 :
          /\ ArraysOf(heap, mutations[a]) # {}
          /\ ValueOf(heap, mutations[a]) # template0

----------------------------------------------------------------------------
(* Properties of runAllTests and the CLI action                            *)

\* runAllTests has returned its list
RunReturned == rpc \in {"report", "exited"}

\* critical > high > medium
LowerSeverity(a, b) ==
    <<a, b>> \in {<<"medium", "high">>, <<"medium", "critical">>, <<"high", "critical">>}

(* C11: in the list runAllTests returns no finding of lower severity        *)
(* precedes a finding of higher severity (critical > high > medium).        *)
C11_SeverityOrdered ==
    RunReturned =>
        \A i, j \in 1..Len(runVulnerabilities) :
            i < j => ~LowerSeverity(runVulnerabilities[i].severity,
                                    runVulnerabilities[j].severity)

\* same kind and same affected signal or components
StructurallyIdentical(a, b) ==
    /\ a.type = b.type
    /\ a.signal = b.signal
    /\ a.components = b.components
    /\ a.signal # NoSignal \/ a.components # <<>>

(* C12: the list runAllTests returns holds no two structurally identical    *)
(* findings (same kind, same affected signal or component).                 *)
C12_NoDuplicateFindings ==
    RunReturned =>
        \A i, j \in 1..Len(runVulnerabilities) :
            i # j => ~StructurallyIdentical(runVulnerabilities[i], runVulnerabilities[j])

\* the findings raised in the pass by the probe, the sweep and the graph analysis
RaisedInPass == Range(findings) \cup Range(mutationFindings) \cup Range(gres.findings)

(* C13: every finding raised by the probe, by a mutation trial or by the    *)
(* graph analysis is an element of the list runAllTests returns, whatever   *)
(* happened in the steps after it.                                          *)
C13_NoFindingDropped ==
    RunReturned => RaisedInPass \subseteq Range(runVulnerabilities)

\* compileCircuit failed, the graph analysis returned through one of its early
\* exits, or the pass ended in its outer catch
SomeCheckFailed ==
    \/ compiled = "failed"
    \/ gpc = "done" /\ ~gres.completed
    \/ returned.kind = "static"

\* the report of a run in which every check completed and found nothing
CleanEmptyReport == [written |-> TRUE, vulnerabilities |-> <<>>]

(* C14: the report of a run in which a check failed or was skipped differs  *)
(* from the report of a run whose checks all completed and found nothing.   *)
C14_FailureDistinctFromEmpty ==
    (rpc = "exited" /\ report.written /\ SomeCheckFailed) => report # CleanEmptyReport

\* writing a mutant's input file threw inside the sweep
SweepThrew ==
    /\ returned.kind = "static"
    /\ w0Source \in {"copied", "generated"}
    /\ ti < Len(mutations)

\* the probe was skipped or reached its generator call
ProbeDidNotThrow ==
    HasNullifierHash(heap, generateInput(inputTemplate)) => genCalls.probe > 0

(* C15: when a step of the mutation sweep threw, nothing else failed and    *)
(* the sweep had raised no finding, the other sub-analyses have still       *)
(* executed when runAllTests returns, the constraint-graph analysis among   *)
(* them.                                                                    *)
C15_FailureDoesNotAbort ==
    (RunReturned /\ SweepThrew /\ ProbeDidNotThrow /\ mutationFindings = <<>>)
        => gpc = "done"

(* C19: the exit status is non-zero exactly when a setup step failed        *)
(* (circuit file, input file, template file, output directory) or the       *)
(* compiler failed.                                                         *)
C19_ExitStatusOnlyOnSetupFailure ==
    rpc = "exited" => (exitStatus # 0 <=> (setupFailure # "none" \/ compiled = "failed"))

----------------------------------------------------------------------------
(* Properties of the constraint-system loader                              *)

PartNames == {"l", "r", "o"}

ConstraintsWellShaped(doc) ==
    /\ doc.constraints.isArray
    /\ \A i \in 1..Len(doc.constraints.items) : \A part \in PartNames :
          /\ doc.constraints.items[i][part].present
          /\ doc.constraints.items[i][part].isArray
          /\ \A k \in 1..Len(doc.constraints.items[i][part].items) :
                /\ doc.constraints.items[i][part].items[k].hasSignal
                /\ doc.constraints.items[i][part].items[k].hasCoefficient

SignalsWellShaped(doc) ==
    /\ doc.signals.isArray
    /\ \A i \in 1..Len(doc.signals.items) : doc.signals.items[i].hasName

NamesDistinct(doc) ==
    \A i, j \in 1..Len(doc.signals.items) :
        i # j => doc.signals.items[i].name # doc.signals.items[j].name

\* a reference is resolved by a signal whose name reads as the same string
Resolved(doc, entry) ==
    \E j \in 1..Len(doc.signals.items) :
        JsString(doc.signals.items[j].name) = JsString(entry.signal)

WellShaped(doc) ==
    /\ doc.kind = "json"
    /\ {"constraints", "signals", "r1csVersion"} \subseteq doc.has
    /\ ConstraintsWellShaped(doc)
    /\ SignalsWellShaped(doc)

FullyValidated(doc) ==
    /\ WellShaped(doc)
    /\ NamesDistinct(doc)
    /\ \A i \in 1..Len(doc.constraints.items) : \A part \in PartNames :
          \A k \in 1..Len(doc.constraints.items[i][part].items) :
              Resolved(doc, doc.constraints.items[i][part].items[k])

HasDanglingReference(doc) ==
    /\ WellShaped(doc)
    /\ \E i \in 1..Len(doc.constraints.items) : \E part \in PartNames :
          \E k \in 1..Len(doc.constraints.items[i][part].items) :
              ~Resolved(doc, doc.constraints.items[i][part].items[k])

LoaderDone == ppc \in {"parsed", "reparsed"}

C17_LenientModeDoesNotThrow ==
    (LoaderDone /\ options = Bool(FALSE) /\ HasDanglingReference(rawData))
        => parsed.kind # "thrown"

(* C18: for an accepted document, parsing the re-serialized parsed system   *)
(* is accepted and yields the same system, and processR1CSData applied to   *)
(* the parsed system returns it unchanged.                                  *)
C18_RoundTrip ==
    /\ (LoaderDone /\ parsed.kind = "value")
          => processR1CSData(parsed.value) = parsed.value
    /\ ppc = "reparsed"
          => /\ reparsed.kind = "value"
             /\ reparsed.value = parsed.value

----------------------------------------------------------------------------
(* C20: whatever the generator does, also when it never returns from an     *)
(* invocation, testForUnderconstrainedVariables eventually returns.         *)
C20_PassEventuallyReturns == (fpc = "start") ~> (fpc = "done")

----------------------------------------------------------------------------
(* Properties of the iteration count                                       *)

\* generateMutatedInputs has returned and the sweep over its result is under way
SweepReached == rpc = "underconstrained" /\ fpc = "trial"

(* C21: in a run that reaches the sweep on a template with at least one    *)
(* key, the number of mutated inputs generated for the sweep equals the    *)
(* configured iteration count this.iterations.                             *)
C21_MutantCountIsIterations ==
    (SweepReached /\ Len(heap.objs[inputTemplate].keys) > 0) =>
        Len(mutations) = iterations

----------------------------------------------------------------------------
(* Properties of the dependency graph                                      *)

\* the directed edges held by a graph: key -> member of its set
GraphEdges(graph) ==
    UNION { { <<graph.keys[i], graph.val[i][j]>> : j \in 1..Len(graph.val[i]) } :
            i \in 1..Len(graph.keys) }

\* the edges the constraints call for: drivers of L or R times driven signals of O
ExpectedEdges(cs) ==
    UNION { ((cs[i][1] \cup cs[i][2]) \ {0}) \X (cs[i][3] \ {0}) :
            i \in { j \in 1..Len(cs) : WellFormed(cs[j]) } }

\* occurrences of s in the parts of the well-formed constraints
PartOccurrences(cs, s) ==
    Cardinality({ <<i, k>> \in (1..Len(cs)) \X (1..3) :
                    WellFormed(cs[i]) /\ s \in cs[i][k] })

UsageCount(deps, s) == IF MapHas(deps, s) THEN MapGet(deps, s) ELSE 0

(* C22: the graph holds an edge s -> t exactly when some well-formed       *)
(* constraint has s as a non-constant signal of L or R and t as a          *)
(* non-constant signal of O; the constant 0 is neither a node, a source    *)
(* nor a target; a constraint that is not a 3-element array adds no edge   *)
(* and no usage count, the other constraints counting in full.             *)
C22_EdgesAreCrossProduct ==
    AnalysisDone =>
        /\ GraphEdges(gres.constraintGraph) = ExpectedEdges(r1cs.constraints)
        /\ 0 \notin Range(gres.constraintGraph.keys)
        /\ \A e \in GraphEdges(gres.constraintGraph) : e[1] # 0 /\ e[2] # 0
        /\ ~MapHas(gres.signalDependencies, 0)
        /\ \A s \in 1..NSignals :
              UsageCount(gres.signalDependencies, s) = PartOccurrences(r1cs.constraints, s)

\* a malformed constraint naming signals, next to a constraint with the constant
\* in a part and two edges from one driver
C22_Witness ==
    /\ AnalysisDone
    /\ \E i \in 1..Len(r1cs.constraints) :
          /\ ~WellFormed(r1cs.constraints[i])
          /\ (r1cs.constraints[i][1] \cup r1cs.constraints[i][2]) \ {0} # {}
    /\ \E i \in 1..Len(r1cs.constraints) :
          /\ WellFormed(r1cs.constraints[i])
          /\ 0 \in r1cs.constraints[i][1] \cup r1cs.constraints[i][2]
          /\ Cardinality(r1cs.constraints[i][3] \ {0}) = 2
    /\ Cardinality(GraphEdges(gres.constraintGraph)) >= 2

(* C23: the analysis reports exactly one disconnected-constraint-graph     *)
(* finding, of severity high, when findConnectedComponents returned more   *)
(* than one component, and none when it returned zero or one; the          *)
(* finding's componentSummary has one entry per returned component, in     *)
(* order, carrying the number of signals of that component.                *)
C23_OneDisconnectedFinding ==
    AnalysisDone =>
        LET reported == FindingsOfType(gres.findings, "disconnected-constraint-graph")
            cc == gres.connectedComponents
        IN  IF Len(cc) > 1
            THEN /\ Cardinality(reported) = 1
                 /\ \A i \in reported :
                       /\ gres.findings[i].severity = "high"
                       /\ Len(gres.findings[i].componentSummary) = Len(cc)
                       /\ \A idx \in 1..Len(cc) :
                             /\ gres.findings[i].componentSummary[idx].id = idx
                             /\ gres.findings[i].componentSummary[idx].size
                                   = Cardinality(Range(cc[idx]))
            ELSE reported = {}

\* two components of different sizes were returned
C23_Witness ==
    /\ AnalysisDone
    /\ Len(gres.connectedComponents) = 2
    /\ Len(gres.connectedComponents[1]) # Len(gres.connectedComponents[2])

\* the circuit's declared outputs: in the exported artifact the signals
\* 1..nOutputs, a number the analysis never reads
OutputDesignations == { 1..n : n \in 0..NSignals }

ReportedLeaf(s) ==
    \E i \in FindingsOfType(gres.findings, "potential-leaf-signal") :
        /\ gres.findings[i].signal = s
        /\ gres.findings[i].severity = "medium"

HasOutgoingEdge(cs, s) == \E e \in ExpectedEdges(cs) : e[1] = s

(* C24: whatever signals the circuit declares as outputs, a signal of the  *)
(* system is reported as potential-leaf-signal (severity medium) exactly   *)
(* when it is not an output and has no outgoing edge in the directed       *)
(* dependency graph; a signal occurring only in O parts is such a signal.  *)
C24_LeafSignalsReported ==
    AnalysisDone =>
        \A outputs \in OutputDesignations :
            \A s \in SystemSignals(r1cs.constraints) :
                ReportedLeaf(s) <=>
                    (s \notin outputs /\ ~HasOutgoingEdge(r1cs.constraints, s))

\* the constraint lists that hold the same constraints in another order
Reorderings(cs) ==
    { [i \in 1..Len(cs) |-> cs[p[i]]] : p \in Permutations(1..Len(cs)) }

ComponentSetsOf(cs) ==
    LET cc == analyzeR1CSConstraints([kind |-> "ok", constraints |-> cs]).connectedComponents
    IN  { Range(cc[i]) : i \in 1..Len(cc) }

(* C25: the components found do not depend on the order of the            *)
(* constraints: the analysis of any reordering of the constraint list      *)
(* yields the same number of components with the same member sets, hence   *)
(* the same decision on disconnected-constraint-graph.                     *)
C25_ComponentsOrderIndependent ==
    AnalysisDone =>
        \A cs \in Reorderings(r1cs.constraints) :
            /\ ComponentSetsOf(cs) = ComponentSets
            /\ Len(analyzeR1CSConstraints([kind |-> "ok", constraints |-> cs]).connectedComponents)
                  = Len(gres.connectedComponents)

\* the nodes of a graph: its keys and the targets of its edges
GraphNodes(graph) ==
    Range(graph.keys) \cup { e[2] : e \in GraphEdges(graph) }

----------------------------------------------------------------------------
(* Properties of the baseline witness                                      *)

\* the baseline step is over and left a file witness1.wtns to compare against
BaselineInPlace == w0Source \in {"copied", "generated"}

(* C26: whenever the pass goes on with a baseline witness, that witness    *)
(* was produced by the generator, invoked once in this pass, on this       *)
(* pass's baseline input; a baseline input the generator rejects never     *)
(* leaves a baseline witness in place.                                     *)
C26_BaselineIsThisPassWitness ==
    BaselineInPlace =>
        /\ w0Source = "generated"
        /\ genCalls.baseline = 1
        /\ baselineWitness # 0
        /\ witness1 = baselineWitness

----------------------------------------------------------------------------
(* Properties of generateWitness                                           *)

WitnessSettled == wpc = "settled"

(* C27: every call of generateWitness, and every run of the script         *)
(* generate_witness.js, eventually settles: the chain of processes it      *)
(* starts does not grow for ever.                                          *)
C27_GenerateWitnessSettles == (wpc \in {"call", "main"}) ~> WitnessSettled

----------------------------------------------------------------------------
(* Properties of the returned list                                         *)

\* an object with a kind and a severity (every object the code builds with a
\* type carries a description and a recommendation) and no error field
IsFinding(f) ==
    /\ f.type # ""
    /\ f.severity \in {"critical", "high", "medium", "low"}
    /\ f.error = ""

(* C29: every element of the list runAllTests returns, and every entry of  *)
(* the vulnerabilities list of the written report, is a finding with a     *)
(* kind and a severity; an object that reports a failure of the tool       *)
(* (error: 'witness_error') is never an element.                           *)
C29_OnlyFindingsReturned ==
    /\ RunReturned =>
          \A i \in 1..Len(runVulnerabilities) : IsFinding(runVulnerabilities[i])
    /\ report.written =>
          \A i \in 1..Len(report.vulnerabilities) : IsFinding(report.vulnerabilities[i])

----------------------------------------------------------------------------
(* Properties of generateMutatedInputs                                     *)

\* same keys in the same order, scalars where the template has scalars, arrays
\* of the template's length where it has arrays
SameShape(value, template) ==
    /\ value.keys = template.keys
    /\ \A k \in 1..Len(template.val) :
          /\ value.val[k].isArray = template.val[k].isArray
          /\ Len(value.val[k].items) = Len(template.val[k].items)

(* C30: every mutant generateMutatedInputs has produced has the shape of   *)
(* the template: the template's keys, a scalar for each scalar and for     *)
(* each array an array of the same length, arrays of length 0 included.    *)
C30_MutantsKeepShape ==
    \A i \in 1..Len(mutations) :
        SameShape(ValueOf(heap, mutations[i]), template0)

====
